---- MODULE Spec2Model ----
(***************************************************************************)
(* Model of the basket analysis of luis-c2255/E_Commerce_Retail.           *)
(*                                                                         *)
(* Two dashboards mine association rules:                                  *)
(*   - the Panel page src/pages/basket_analysis.py, whose rule mining      *)
(*     (association_rules) is wholly in the source, and                    *)
(*   - the Streamlit page src/pages/3_..._Basket_Analysis.py, which calls  *)
(*     utils.ml_models.market_basket_analysis and filters its result.      *)
(*                                                                         *)
(* Further sections model the customer pages over the RFM table           *)
(* (src/pages/customer_analysis.py, src/pages/2_..._Customer_Analysis.py)  *)
(* and the forecast page (src/pages/5_..._Predictive_Analytics.py).        *)
(*                                                                         *)
(* Numbers that the code holds as floats (support, confidence, lift) are   *)
(* exact fractions [num, den] here; the rounding of IEEE doubles is        *)
(* modelled where two computations of one value are compared (the two      *)
(* lifts of a rule, at the end of the module).                             *)
(***************************************************************************)
EXTENDS Integers, Sequences, FiniteSets, TLC

VARIABLES
    app,              \* which dashboard runs: "panel" or "streamlit"
    retail,           \* the loaded transaction table (a sequence of lines)
    sort_kind,        \* how the build's sort orders rows of equal key
    country_filter,   \* Panel widget: list of selected countries (a set)
    date_range,       \* Panel widget: <<start, end>>
    customer_filter,  \* Panel widget: "" or the customer typed
    min_lift,         \* Panel widget Minimum Lift, in tenths
    min_conf,         \* Panel widget Minimum Confidence (%)
    top_n_rules,      \* Panel widget Number of Rules
    d,                \* last table filtered_retail returned
    view_error,       \* TRUE when the last recomputation raised
    assoc,            \* what association_rules last computed
    st_min_lift,      \* Streamlit slider Minimum Lift, in tenths
    st_min_confidence,\* Streamlit slider Minimum Confidence (%)
    max_rules,        \* Streamlit number input Rules to Display
    st_cache,         \* what load_basket_data returned (st.cache_data)
    st_view,          \* what the Streamlit page last rendered
    call,             \* the call of mine_rules in progress
    rfm,              \* the CustomerRFM table of the customer pages
    customer_view,    \* what the customer page last rendered
    forecast_cache,   \* what load_forecast_data returned (st.cache_data)
    forecast_view,    \* what the forecast page last rendered
    session_state,    \* st.session_state of the entry page's session
    entry_view,       \* what the entry page last rendered
    loader_log,       \* the outcomes of the calls of load_and_prepare_data
    clv_view          \* what the CLV and churn page last rendered

vars == <<app, retail, sort_kind, country_filter, date_range, customer_filter,
          min_lift, min_conf, top_n_rules, d, view_error, assoc,
          st_min_lift, st_min_confidence, max_rules, st_cache, st_view,
          call, rfm, customer_view, forecast_cache, forecast_view,
          session_state, entry_view, loader_log, clv_view>>

\* the state of the engines and pages other than the two basket pages
\* the state of the entry page and of the CLV and churn page
other_pages == <<session_state, entry_view, loader_log, clv_view>>

analytics == <<call, rfm, customer_view, forecast_cache, forecast_view, other_pages>>

panel_widgets == <<country_filter, date_range, customer_filter,
                   min_lift, min_conf, top_n_rules>>

st_widgets == <<st_min_lift, st_min_confidence, max_rules>>

----------------------------------------------------------------------------
(* Bounds of the input tables.                                             *)

NumInvoices == 3
NumItems == 3
MaxLines == 6
MaxExtraBase == 3
NumWide == 4

ItemNames == <<"A", "B", "C", "D", "E", "F">>

Items == {ItemNames[i] : i \in 1..NumItems}

\* Ten further products, for tables with a catalogue of more than ten products
CatalogueNames == <<"P0", "P1", "P2", "P3", "P4", "P5", "P6", "P7", "P8", "P9">>

\* Python's order of the product names (sorted() on str)
Rank(item) ==
    LET names == ItemNames \o CatalogueNames
    IN  CHOOSE i \in 1..Len(names) : names[i] = item

Invoices == 1..NumInvoices

\* Attributes every line of an invoice shares in the input tables
InvoiceCountry(i) == IF i % 2 = 0 THEN "France" ELSE "United Kingdom"

InvoiceCustomer(i) == IF i % 3 = 0 THEN "c2" ELSE "c1"

UnitPrice(item) == Rank(item)

NaN == "NaN"

\* One line of the transaction table (the columns the pages read)
Line(i, item, q) ==
    [InvoiceNo |-> i, Description |-> item, Quantity |-> q,
     TotalAmount |-> q * (IF item = NaN THEN 1 ELSE UnitPrice(item)),
     Country |-> InvoiceCountry(i), CustomerID |-> InvoiceCustomer(i),
     InvoiceDate |-> i]

CellKey(c) == c[1] * (Len(ItemNames) + Len(CatalogueNames) + 1) + Rank(c[2])

RECURSIVE CellsInOrder(_)
CellsInOrder(S) ==
    IF S = {} THEN <<>>
    ELSE LET m == CHOOSE c \in S : \A e \in S : CellKey(c) <= CellKey(e)
         IN  <<m>> \o CellsInOrder(S \ {m})

\* The table with one line of one unit for every (invoice, product) of P
BaseTable(P) ==
    LET cells == CellsInOrder(P)
    IN  [k \in 1..Len(cells) |-> Line(cells[k][1], cells[k][2], 1)]

\* A further line of invoice 1: a second line of two units of product A,
\* a return of product A, or a line without Description
ExtraLines == {<<Line(1, "A", 2)>>, <<Line(1, "A", -1)>>, <<Line(1, NaN, 1)>>}

Cells(n) == {Q \in SUBSET (Invoices \X Items) : Cardinality(Q) <= n}

\* Invoice 1 holds each of the first NumWide products, invoice 2 some of them
WideItems == {ItemNames[i] : i \in 1..NumWide}

WideTables == {BaseTable(({1} \X WideItems) \cup ({2} \X S)) : S \in SUBSET WideItems}

\* The baskets {A,B}, {A,B,C}, {A,C,D}: the rule A -> B passes a lift
\* threshold of 1.0 and a confidence threshold of 40 %, B -> C is under the
\* first only and A -> D under the second only
MixedTable ==
    BaseTable({<<1, "A">>, <<1, "B">>, <<2, "A">>, <<2, "B">>, <<2, "C">>,
               <<3, "A">>, <<3, "C">>, <<3, "D">>})

\* The tables the model loads: up to MaxLines lines of one unit each, or up
\* to MaxExtraBase such lines and one further line, or a wide table
Tables ==
    {BaseTable(P) : P \in Cells(MaxLines)}
    \cup {BaseTable(P) \o x : P \in Cells(MaxExtraBase), x \in ExtraLines}
    \cup WideTables
    \cup {MixedTable}

\* Each catalogue product bought once, alone, on an invoice of its own
CatalogueLines ==
    [k \in 1..Len(CatalogueNames) |-> Line(NumInvoices + k, CatalogueNames[k], 1)]

----------------------------------------------------------------------------
(* Exact fractions for the code's float divisions.                         *)

Frac(n, m) == [num |-> n, den |-> m]

\* x / y and x * k as the code writes them (y is never 0 where it is used)
FDiv(x, y) == [num |-> x.num * y.den, den |-> x.den * y.num]

FMul(x, k) == [num |-> x.num * k, den |-> x.den]

\* comparisons of fractions with positive denominators
FGe(x, y) == x.num * y.den >= y.num * x.den

FGt(x, y) == x.num * y.den > y.num * x.den

FEq(x, y) == x.num * y.den = y.num * x.den

----------------------------------------------------------------------------
(* Python helpers.                                                         *)

Min(a, b) == IF a <= b THEN a ELSE b

\* sorted(S) for a set of product names
RECURSIVE sorted(_)
sorted(S) ==
    IF S = {} THEN <<>>
    ELSE LET m == CHOOSE x \in S : \A y \in S : Rank(x) <= Rank(y)
         IN  <<m>> \o sorted(S \ {m})

\* tuple(sorted((a, b)))
sorted_pair(a, b) == IF Rank(a) <= Rank(b) THEN <<a, b>> ELSE <<b, a>>

\* Mutant: itertools.combinations_with_replacement(items, 2)
RECURSIVE combinations_with_replacement(_)
combinations_with_replacement(items) ==
    IF items = <<>> THEN <<>>
    ELSE [k \in 1..Len(items) |-> <<items[1], items[k]>>]
         \o combinations_with_replacement(Tail(items))

\* itertools.combinations(items, 2), in the order it yields
RECURSIVE combinations(_)
combinations(items) ==
    IF Len(items) < 2 THEN <<>>
    ELSE [k \in 1..(Len(items) - 1) |-> <<items[1], items[k + 1]>>]
         \o combinations(Tail(items))

\* dict.get(key, default) on a dict kept as the sequence of its entries
dict_get(dict, key, default) ==
    IF \E k \in 1..Len(dict) : dict[k].key = key
    THEN dict[CHOOSE k \in 1..Len(dict) : dict[k].key = key].val
    ELSE default

\* Mutant: dict[key] = 1, the count is never incremented
dict_count_set_one(dict, key) ==
    IF \E k \in 1..Len(dict) : dict[k].key = key
    THEN dict
    ELSE Append(dict, [key |-> key, val |-> 1])

\* dict[key] = dict.get(key, 0) + 1: a new key goes last
dict_count(dict, key) ==
    IF \E k \in 1..Len(dict) : dict[k].key = key
    THEN [k \in 1..Len(dict) |->
            IF dict[k].key = key THEN [key |-> key, val |-> dict[k].val + 1]
            ELSE dict[k]]
    ELSE Append(dict, [key |-> key, val |-> 1])

RECURSIVE count_all(_, _)
count_all(dict, keys) ==
    IF keys = <<>> THEN dict
    ELSE count_all(dict_count(dict, Head(keys)), Tail(keys))

RECURSIVE concat(_)
concat(seqs) == IF seqs = <<>> THEN <<>> ELSE Head(seqs) \o concat(Tail(seqs))

RECURSIVE sorted_ints(_)
sorted_ints(S) ==
    IF S = {} THEN <<>>
    ELSE LET m == CHOOSE x \in S : \A y \in S : x <= y
         IN  <<m>> \o sorted_ints(S \ {m})

\* Series.dropna()
dropna(x) == SelectSeq(x, LAMBDA v : v # NaN)

\* set(x)
set(x) == {x[k] : k \in 1..Len(x)}

----------------------------------------------------------------------------
(* Rule mining of the Panel page: association_rules.                       *)

\* The Description column of the lines of invoice i, in row order
group(dd, i) ==
    LET rows == SelectSeq(dd, LAMBDA r : r.InvoiceNo = i)
    IN  [k \in 1..Len(rows) |-> rows[k].Description]

\* sorted(x) for a list of product names, duplicates kept
RECURSIVE sorted_list(_, _)
sorted_list(done, x) ==
    IF x = <<>> THEN done
    ELSE LET k == Cardinality({j \in 1..Len(done) : Rank(done[j]) <= Rank(Head(x))})
         IN  sorted_list(SubSeq(done, 1, k) \o <<Head(x)>> \o SubSeq(done, k + 1, Len(done)),
                         Tail(x))

\* Mutant: sorted(x.dropna()), the lines of a basket are not deduplicated
baskets_of_lines(dd) ==
    LET keys == sorted_ints({dd[k].InvoiceNo : k \in 1..Len(dd)})
    IN  [j \in 1..Len(keys) |-> sorted_list(<<>>, dropna(group(dd, keys[j])))]

\* d.groupby("InvoiceNo")["Description"].apply(lambda x: sorted(set(x.dropna()))):
\* one basket per invoice number, in ascending order of invoice number
baskets_of(dd) ==
    LET keys == sorted_ints({dd[k].InvoiceNo : k \in 1..Len(dd)})
    IN  [j \in 1..Len(keys) |-> sorted(set(dropna(group(dd, keys[j]))))]

\* Mutant: the items are counted in the baskets that have a pair only
item_counts_of_paired(baskets) ==
    count_all(<<>>, concat(SelectSeq(baskets, LAMBDA b : Len(b) >= 2)))

\* item_counts[item] = item_counts.get(item, 0) + 1, for every item of every basket
item_counts_of(baskets) == count_all(<<>>, concat(baskets))

\* Mutant: the pairs are taken over the products of all baskets together
pair_counts_across_baskets(baskets) ==
    LET c == combinations(sorted(set(concat(baskets))))
    IN  count_all(<<>>, [k \in 1..Len(c) |-> sorted_pair(c[k][1], c[k][2])])

\* pair_counts[tuple(sorted((a, b)))] += 1 for every combination of every basket
pair_counts_of(baskets) ==
    count_all(<<>>,
        concat([j \in 1..Len(baskets) |->
            LET c == combinations(baskets[j])
            IN  [k \in 1..Len(c) |-> sorted_pair(c[k][1], c[k][2])]]))

\* The row of the rules table with the given values
row(a, b, support, conf_ab, conf_ba, lift_ab, lift_ba) ==
    [A |-> a, B |-> b,
     Support |-> support,
     SupportPct |-> FMul(support, 100),
     Confidence_A_to_B |-> FMul(conf_ab, 100),
     Confidence_B_to_A |-> FMul(conf_ba, 100),
     Lift_A_to_B |-> lift_ab,
     Lift_B_to_A |-> lift_ba]

\* Mutant: support = count_ab / count_a
rule_row_support_of_a(entry, item_counts, n_transactions) ==
    LET count_ab == entry.val
        count_a == dict_get(item_counts, entry.key[1], 1)
        count_b == dict_get(item_counts, entry.key[2], 1)
        conf_ab == Frac(count_ab, count_a)
        conf_ba == Frac(count_ab, count_b)
    IN  row(entry.key[1], entry.key[2], Frac(count_ab, count_a), conf_ab, conf_ba,
            FDiv(conf_ab, Frac(count_b, n_transactions)),
            FDiv(conf_ba, Frac(count_a, n_transactions)))

\* Mutant: lift_ab = conf_ab / (count_a / n_transactions)
rule_row_lift_of_a(entry, item_counts, n_transactions) ==
    LET count_ab == entry.val
        count_a == dict_get(item_counts, entry.key[1], 1)
        count_b == dict_get(item_counts, entry.key[2], 1)
        conf_ab == Frac(count_ab, count_a)
        conf_ba == Frac(count_ab, count_b)
    IN  row(entry.key[1], entry.key[2], Frac(count_ab, n_transactions), conf_ab, conf_ba,
            FDiv(conf_ab, Frac(count_a, n_transactions)),
            FDiv(conf_ba, Frac(count_a, n_transactions)))

\* Mutant: conf_ab = count_a / count_ab and conf_ba = count_b / count_ab
rule_row_conf_inverted(entry, item_counts, n_transactions) ==
    LET count_ab == entry.val
        count_a == dict_get(item_counts, entry.key[1], 1)
        count_b == dict_get(item_counts, entry.key[2], 1)
        conf_ab == Frac(count_a, count_ab)
        conf_ba == Frac(count_b, count_ab)
    IN  row(entry.key[1], entry.key[2], Frac(count_ab, n_transactions), conf_ab, conf_ba,
            FDiv(Frac(count_ab, count_a), Frac(count_b, n_transactions)),
            FDiv(Frac(count_ab, count_b), Frac(count_a, n_transactions)))

\* One row of the rules table, for the entry ((a, b), count_ab) of pair_counts
rule_row(entry, item_counts, n_transactions) ==
    LET a == entry.key[1]
        b == entry.key[2]
        count_ab == entry.val
        support == Frac(count_ab, n_transactions)
        count_a == dict_get(item_counts, a, 1)
        count_b == dict_get(item_counts, b, 1)
        conf_ab == Frac(count_ab, count_a)
        conf_ba == Frac(count_ab, count_b)
        lift_ab == FDiv(conf_ab, Frac(count_b, n_transactions))
        lift_ba == FDiv(conf_ba, Frac(count_a, n_transactions))
    IN  row(a, b, support, conf_ab, conf_ba, lift_ab, lift_ba)

\* rules = pd.DataFrame(rows): one row per entry of pair_counts, in dict order
rules_of(pair_counts, item_counts, n_transactions) ==
    [k \in 1..Len(pair_counts) |-> rule_row(pair_counts[k], item_counts, n_transactions)]

\* Mutant: rules[rules["Lift_A_to_B"] >= min_lift_val]
rules_mask_lift_only(rules, min_lift_val, min_conf_val) ==
    SelectSeq(rules, LAMBDA r : FGe(r.Lift_A_to_B, min_lift_val))

\* rules[(rules["Lift_A_to_B"] >= min_lift_val) & (rules["Confidence_A_to_B"] >= min_conf_val)]
rules_mask(rules, min_lift_val, min_conf_val) ==
    SelectSeq(rules, LAMBDA r : /\ FGe(r.Lift_A_to_B, min_lift_val)
                                /\ FGe(r.Confidence_A_to_B, min_conf_val))

\* Where row r goes into rows already in descending order of Lift_A_to_B.
\* pandas sorts with kind="quicksort", which leaves the order of rows of
\* equal key to the build: "stable" keeps them in their order in the frame,
\* "reversed" is the other order an unstable sort may leave.
RECURSIVE insert_desc(_, _, _)
insert_desc(rows, r, kind) ==
    IF rows = <<>> THEN <<r>>
    ELSE IF \/ FGt(r.Lift_A_to_B, Head(rows).Lift_A_to_B)
            \/ (kind = "reversed" /\ FEq(r.Lift_A_to_B, Head(rows).Lift_A_to_B))
         THEN <<r>> \o rows
         ELSE <<Head(rows)>> \o insert_desc(Tail(rows), r, kind)

\* Mutant: the filtered rows are not sorted
sort_values_skipped(done, rows, kind) == done \o rows

\* .sort_values("Lift_A_to_B", ascending=False)
RECURSIVE sort_values_desc(_, _, _)
sort_values_desc(done, rows, kind) ==
    IF rows = <<>> THEN done
    ELSE sort_values_desc(insert_desc(done, Head(rows), kind), Tail(rows), kind)

\* Mutant: the last n rows instead of the first n
head_last(rows, n) == SubSeq(rows, Len(rows) - Min(n, Len(rows)) + 1, Len(rows))

\* .head(n)
head(rows, n) == SubSeq(rows, 1, Min(n, Len(rows)))

NoRules == <<>>

\* What association_rules has computed when it returns
computed(shows, baskets, item_counts, pair_counts, rules, rules_filtered, rules_top) ==
    [shows |-> shows, baskets |-> baskets, item_counts |-> item_counts,
     pair_counts |-> pair_counts, rules |-> rules,
     rules_filtered |-> rules_filtered, rules_top |-> rules_top]

\* Mutant: no return for an empty table or for no basket, the rules are read
\* from a frame without columns
association_rules_unguarded(dd, min_lift_val, min_conf_val, top_n_val, kind) ==
    LET baskets == baskets_of(dd)
        n_transactions == Len(baskets)
        item_counts == item_counts_of(baskets)
        pair_counts == pair_counts_of(baskets)
        rules == rules_of(pair_counts, item_counts, n_transactions)
        rules_filtered ==
            sort_values_desc(<<>>, rules_mask(rules, min_lift_val, min_conf_val), kind)
    IN  IF pair_counts = <<>> THEN
            computed("KeyError", baskets, item_counts, pair_counts, NoRules, NoRules, NoRules)
        ELSE IF rules_filtered = <<>> THEN
            computed("No rules match the current thresholds.",
                     baskets, item_counts, pair_counts, rules, rules_filtered, NoRules)
        ELSE
            computed("rules", baskets, item_counts, pair_counts, rules, rules_filtered,
                     head(rules_filtered, top_n_val))


\* association_rules(d, min_lift_val, min_conf_val, top_n_val): what it
\* computes, and which of its returns it takes
association_rules(dd, min_lift_val, min_conf_val, top_n_val, kind) ==
    LET baskets == baskets_of(dd)
        n_transactions == Len(baskets)
        item_counts == item_counts_of(baskets)
        pair_counts == pair_counts_of(baskets)
        rules == rules_of(pair_counts, item_counts, n_transactions)
        rules_filtered ==
            sort_values_desc(<<>>, rules_mask(rules, min_lift_val, min_conf_val), kind)
    IN  IF dd = <<>> THEN
            computed("No transactions for current filters.",
                     <<>>, <<>>, <<>>, NoRules, NoRules, NoRules)
        ELSE IF n_transactions = 0 THEN
            computed("No transactions for current filters.",
                     baskets, <<>>, <<>>, NoRules, NoRules, NoRules)
        ELSE IF pair_counts = <<>> THEN
            computed("Not enough product combinations to build associations.",
                     baskets, item_counts, pair_counts, NoRules, NoRules, NoRules)
        ELSE IF rules_filtered = <<>> THEN
            computed("No rules match the current thresholds.",
                     baskets, item_counts, pair_counts, rules, rules_filtered, NoRules)
        ELSE
            computed("rules", baskets, item_counts, pair_counts, rules, rules_filtered,
                     head(rules_filtered, top_n_val))

\* kpi_row of the overview page: total_revenue = d["TotalAmount"].sum()
RECURSIVE total_revenue(_)
total_revenue(dd) ==
    IF dd = <<>> THEN 0 ELSE Head(dd).TotalAmount + total_revenue(Tail(dd))

----------------------------------------------------------------------------
(* The Panel page: filters, widgets and the views that depend on them.     *)

Countries == {InvoiceCountry(i) : i \in Invoices}

Customers == {InvoiceCustomer(i) : i \in Invoices}

\* global_filters(df): the widgets' values after construction
DefaultCountryFilter == Countries

DefaultDateRange == <<1, NumInvoices>>

DefaultCustomerFilter == ""

\* filtered_retail(): the filtered copy of retail, or the TypeError pandas
\* raises for isin() of a str (AutocompleteInput.value is a str)
filtered_retail(table, countries, range, customer) ==
    LET d1 == IF countries # {}
              THEN SelectSeq(table, LAMBDA r : r.Country \in countries)
              ELSE table
        d3 == SelectSeq(d1, LAMBDA r : /\ r.InvoiceDate >= range[1]
                                       /\ r.InvoiceDate <= range[2])
    IN  IF customer # "" THEN [raised |-> TRUE, d |-> <<>>]
        ELSE [raised |-> FALSE, d |-> d3]

\* Values of the sliders that the model visits (lift in tenths)
MinLiftValues == {10, 15, 20}

MinConfValues == {40, 50, 100}

TopNValues == {5, 10}

DefaultMinLift == 15

DefaultMinConf == 40

DefaultTopN == 10

NotRendered == computed("", <<>>, <<>>, <<>>, NoRules, NoRules, NoRules)

\* The recomputation every widget of the Panel page triggers: the views are
\* replaced when filtered_retail returns and are left as they were when it raises
PanelRefresh ==
    LET f == filtered_retail(retail, country_filter', date_range', customer_filter')
    IN  IF f.raised
        THEN /\ view_error' = TRUE
             /\ UNCHANGED <<d, assoc>>
        ELSE /\ view_error' = FALSE
             /\ d' = f.d
             /\ assoc' = association_rules(f.d, Frac(min_lift', 10), Frac(min_conf', 1),
                                           top_n_rules', sort_kind)

PanelFrame == UNCHANGED <<app, retail, sort_kind, st_widgets, st_cache, st_view, analytics,
                other_pages>>

SetMinLift(v) ==
    /\ app = "panel"
    /\ min_lift' = v
    /\ UNCHANGED <<country_filter, date_range, customer_filter, min_conf, top_n_rules>>
    /\ PanelRefresh
    /\ PanelFrame

SetMinConf(v) ==
    /\ app = "panel"
    /\ min_conf' = v
    /\ UNCHANGED <<country_filter, date_range, customer_filter, min_lift, top_n_rules>>
    /\ PanelRefresh
    /\ PanelFrame

SetTopN(v) ==
    /\ app = "panel"
    /\ top_n_rules' = v
    /\ UNCHANGED <<country_filter, date_range, customer_filter, min_lift, min_conf>>
    /\ PanelRefresh
    /\ PanelFrame

SetCountryFilter(v) ==
    /\ app = "panel"
    /\ country_filter' = v
    /\ UNCHANGED <<date_range, customer_filter, min_lift, min_conf, top_n_rules>>
    /\ PanelRefresh
    /\ PanelFrame

SetDateRange(v) ==
    /\ app = "panel"
    /\ date_range' = v
    /\ UNCHANGED <<country_filter, customer_filter, min_lift, min_conf, top_n_rules>>
    /\ PanelRefresh
    /\ PanelFrame

SetCustomerFilter(v) ==
    /\ app = "panel"
    /\ customer_filter' = v
    /\ UNCHANGED <<country_filter, date_range, min_lift, min_conf, top_n_rules>>
    /\ PanelRefresh
    /\ PanelFrame

----------------------------------------------------------------------------
(* The Streamlit page.  utils.data_processor.prepare_basket_analysis and   *)
(* utils.ml_models.market_basket_analysis are not part of the source: they *)
(* follow the specification's Basket Engine (mine_rules).                  *)

\* prepare_basket_analysis(df): one basket per invoice, the set of products
\* of its lines of positive Quantity
prepare_basket_analysis(df) ==
    LET lines == SelectSeq(df, LAMBDA r : r.Quantity > 0)
        keys == sorted_ints({lines[k].InvoiceNo : k \in 1..Len(lines)})
    IN  [j \in 1..Len(keys) |-> set(dropna(group(lines, keys[j])))]

\* number of baskets that hold every product of S
basket_count(basket_binary, S) ==
    Cardinality({j \in 1..Len(basket_binary) : S \subseteq basket_binary[j]})

\* Where rule r goes into rules in descending order of Lift, higher Support
\* first among rules of equal Lift
RECURSIVE insert_rule(_, _)
insert_rule(rules, r) ==
    IF rules = <<>> THEN <<r>>
    ELSE IF \/ FGt(r.Lift, Head(rules).Lift)
            \/ (FEq(r.Lift, Head(rules).Lift) /\ FGt(r.Support, Head(rules).Support))
         THEN <<r>> \o rules
         ELSE <<Head(rules)>> \o insert_rule(Tail(rules), r)

RECURSIVE sort_rules(_, _)
sort_rules(done, rules) ==
    IF rules = <<>> THEN done
    ELSE sort_rules(insert_rule(done, Head(rules)), Tail(rules))

\* mine_rules(transactions, min_support, min_lift, min_confidence): the
\* item frequencies and the rules that pass the three thresholds
mine_rules(basket_binary, min_support_val, min_lift_val, min_confidence_val) ==
    LET n == Len(basket_binary)
        products == sorted(UNION {basket_binary[j] : j \in 1..Len(basket_binary)})
        together == SelectSeq(combinations(products),
                              LAMBDA c : basket_count(basket_binary, {c[1], c[2]}) > 0)
        rule(c) ==
            LET co == basket_count(basket_binary, {c[1], c[2]})
                ca == basket_count(basket_binary, {c[1]})
                cb == basket_count(basket_binary, {c[2]})
            IN  [Item_A |-> c[1], Item_B |-> c[2],
                 Support |-> Frac(co, n),
                 Confidence_A_to_B |-> Frac(co, ca),
                 Confidence_B_to_A |-> Frac(co, cb),
                 Lift |-> FDiv(Frac(co, ca), Frac(cb, n))]
        all == [k \in 1..Len(together) |-> rule(together[k])]
        kept == SelectSeq(all, LAMBDA r : /\ FGe(r.Support, min_support_val)
                                          /\ FGe(r.Lift, min_lift_val)
                                          /\ FGe(r.Confidence_A_to_B, min_confidence_val))
    IN  [frequent_items |->
            [k \in 1..Len(products) |->
                [Product |-> products[k],
                 Frequency |-> Frac(basket_count(basket_binary, {products[k]}), n)]],
         pairs |-> sort_rules(<<>>, kept)]

\* market_basket_analysis(basket_binary, min_support=0.01)
market_basket_analysis(basket_binary, min_support_val) ==
    mine_rules(basket_binary, min_support_val, Frac(0, 1), Frac(0, 1))

\* load_basket_data(), cached by st.cache_data
load_basket_data(df) ==
    market_basket_analysis(prepare_basket_analysis(df), Frac(1, 100))

\* Mutant: pairs['Confidence_A_to_B'] >= min_confidence, the percentage not divided by 100
filtered_pairs_percent(pairs, min_lift_val, min_confidence_val) ==
    SelectSeq(pairs, LAMBDA r : /\ FGe(r.Lift, min_lift_val)
                                /\ FGe(r.Confidence_A_to_B, min_confidence_val))

\* pairs[(pairs['Lift'] >= min_lift) & (pairs['Confidence_A_to_B'] >= min_confidence / 100)]
filtered_pairs_of(pairs, min_lift_val, min_confidence_val) ==
    SelectSeq(pairs, LAMBDA r : /\ FGe(r.Lift, min_lift_val)
                                /\ FGe(r.Confidence_A_to_B, FDiv(min_confidence_val, Frac(100, 1))))

StMinLiftValues == {10, 15, 20}

StMinConfidenceValues == {20, 50}

MaxRulesValues == {5, 20}

DefaultStMinLift == 15

DefaultStMinConfidence == 20

DefaultMaxRules == 20

\* rows of the "Top 10 Products" table, which gets a Rank column of length 10
TopProducts == 10

\* One run of the page's script over the cached data. Columns the page
\* derives by rounding ('Frequency %', 'Orders', 'Support (%)', ...) are
\* left out.
st_run(cache, min_lift_val, min_confidence_val, max_rules_val) ==
    LET top_10_items == head(cache.frequent_items, TopProducts)
        filtered_pairs == filtered_pairs_of(cache.pairs, min_lift_val, min_confidence_val)
    IN  IF Len(top_10_items) # TopProducts THEN
            \* top_10_items['Rank'] = range(1, 11) raises ValueError
            [shows |-> "ValueError", top_10_items |-> <<>>,
             filtered_pairs |-> NoRules, display_pairs |-> NoRules]
        ELSE IF Len(filtered_pairs) > 0 THEN
            [shows |-> "rules", top_10_items |-> top_10_items,
             filtered_pairs |-> filtered_pairs,
             display_pairs |-> head(filtered_pairs, max_rules_val)]
        ELSE
            [shows |-> "No Rules Found", top_10_items |-> top_10_items,
             filtered_pairs |-> filtered_pairs,
             display_pairs |-> NoRules]

StRerun ==
    /\ app = "streamlit"
    /\ st_view.shows # "ValueError"
    /\ st_view' = st_run(st_cache, Frac(st_min_lift', 10), Frac(st_min_confidence', 1),
                         max_rules')
    /\ UNCHANGED <<app, retail, sort_kind, panel_widgets, d, view_error, assoc, st_cache,
                   analytics,
                other_pages>>

SetStMinLift(v) ==
    /\ st_min_lift' = v
    /\ UNCHANGED <<st_min_confidence, max_rules>>
    /\ StRerun

SetStMinConfidence(v) ==
    /\ st_min_confidence' = v
    /\ UNCHANGED <<st_min_lift, max_rules>>
    /\ StRerun

SetMaxRules(v) ==
    /\ max_rules' = v
    /\ UNCHANGED <<st_min_lift, st_min_confidence>>
    /\ StRerun

----------------------------------------------------------------------------
(* The engines and pages other than the basket pages, before they run.     *)

NotComputed == "not computed"

\* a float that is not a number, and an infinite one, as fractions
FNaN == Frac(0, 0)

FInf == Frac(1, 0)

\* nothing cached by load_forecast_data, nothing shown by the forecast page
NoForecast == [cached |-> FALSE, monthly_sales |-> <<>>, forecast |-> <<>>]

NoFigure == [historical |-> [x |-> <<>>, y |-> <<>>], forecasted |-> [x |-> <<>>, y |-> <<>>],
             interval |-> [x |-> <<>>, y |-> <<>>]]

NoSummary == [hist_avg |-> FNaN, fore_avg |-> FNaN, growth |-> FNaN, total_fore |-> FNaN]

NoForecastView ==
    [shows |-> "", error |-> "", summary |-> NoSummary, fig_forecast |-> NoFigure,
     forecast_display |-> <<>>]

NoCall ==
    [pc |-> "idle", min_support |-> NotComputed, min_lift |-> NotComputed,
     min_confidence |-> NotComputed, raised |-> "", baskets |-> NotComputed,
     frequent_items |-> NotComputed, pairs |-> NotComputed]

\* st.session_state of a new session: no key
NoSession == [keys |-> {}, df |-> <<>>]

NotRun == [shows |-> ""]

OtherPagesIdle ==
    /\ session_state = NoSession
    /\ entry_view = NotRun
    /\ loader_log = <<>>
    /\ clv_view = NotRun

AnalyticsIdle ==
    /\ call = NoCall
    /\ rfm = <<>>
    /\ customer_view = NotComputed
    /\ forecast_cache = NoForecast
    /\ forecast_view = NoForecastView
    /\ OtherPagesIdle

----------------------------------------------------------------------------
(* Specifications.                                                         *)

SortKinds == {"stable", "reversed"}

\* The state after the page is first rendered over the table t
PanelInit(t) ==
    /\ app = "panel"
    /\ sort_kind \in SortKinds
    /\ retail = t
    /\ country_filter = DefaultCountryFilter
    /\ date_range = DefaultDateRange
    /\ customer_filter = DefaultCustomerFilter
    /\ min_lift = DefaultMinLift
    /\ min_conf = DefaultMinConf
    /\ top_n_rules = DefaultTopN
    /\ view_error = FALSE
    /\ d = filtered_retail(t, DefaultCountryFilter, DefaultDateRange,
                           DefaultCustomerFilter).d
    /\ assoc = association_rules(d, Frac(DefaultMinLift, 10), Frac(DefaultMinConf, 1),
                                 DefaultTopN, sort_kind)
    /\ st_min_lift = DefaultStMinLift
    /\ st_min_confidence = DefaultStMinConfidence
    /\ max_rules = DefaultMaxRules
    /\ st_cache = [frequent_items |-> <<>>, pairs |-> NoRules]
    /\ st_view = [shows |-> "", top_10_items |-> <<>>,
                  filtered_pairs |-> NoRules, display_pairs |-> NoRules]
    /\ AnalyticsIdle

StreamlitInit(t) ==
    /\ app = "streamlit"
    /\ sort_kind = "stable"
    /\ retail = t
    /\ country_filter = DefaultCountryFilter
    /\ date_range = DefaultDateRange
    /\ customer_filter = DefaultCustomerFilter
    /\ min_lift = DefaultMinLift
    /\ min_conf = DefaultMinConf
    /\ top_n_rules = DefaultTopN
    /\ view_error = FALSE
    /\ d = <<>>
    /\ assoc = NotRendered
    /\ st_min_lift = DefaultStMinLift
    /\ st_min_confidence = DefaultStMinConfidence
    /\ max_rules = DefaultMaxRules
    /\ st_cache = load_basket_data(t)
    /\ st_view = st_run(st_cache, Frac(DefaultStMinLift, 10),
                        Frac(DefaultStMinConfidence, 1), DefaultMaxRules)
    /\ AnalyticsIdle

\* Rule mining over every table of the family
MiningInit ==
    \/ \E t \in Tables : PanelInit(t)
    \/ \E t \in Tables, c \in {<<>>, CatalogueLines} : StreamlitInit(t \o c)

MiningNext ==
    \/ \E v \in MinLiftValues : SetMinLift(v)
    \/ \E v \in MinConfValues : SetMinConf(v)
    \/ \E v \in TopNValues : SetTopN(v)
    \/ \E v \in StMinLiftValues : SetStMinLift(v)
    \/ \E v \in StMinConfidenceValues : SetStMinConfidence(v)
    \/ \E v \in MaxRulesValues : SetMaxRules(v)

MiningSpec == MiningInit /\ [][MiningNext]_vars

\* Scenario 1 of the specification: the baskets {A,B}, {A,B,C}, {A}
Scenario1 ==
    BaseTable({<<1, "A">>, <<1, "B">>, <<2, "A">>, <<2, "B">>, <<2, "C">>, <<3, "A">>})

\* The baskets {A,C}, {A,B}, {A,B}: rules of equal lift and unequal support
TiedLift ==
    BaseTable({<<1, "A">>, <<1, "C">>, <<2, "A">>, <<2, "B">>, <<3, "A">>, <<3, "B">>})

PageTables == {Scenario1, TiedLift} \cup {Scenario1 \o x : x \in ExtraLines}

CountryFilterValues == SUBSET Countries

DateRangeValues == {<<a, b>> : a \in Invoices, b \in Invoices} \ {<<a, b>> \in Invoices \X Invoices : a > b}

CustomerFilterValues == {""} \cup Customers

\* Every widget of both pages, over a few tables
Init ==
    \/ \E t \in PageTables : PanelInit(t)
    \/ \E t \in PageTables, c \in {<<>>, CatalogueLines} : StreamlitInit(t \o c)

Next ==
    \/ MiningNext
    \/ \E v \in CountryFilterValues : SetCountryFilter(v)
    \/ \E v \in DateRangeValues : SetDateRange(v)
    \/ \E v \in CustomerFilterValues : SetCustomerFilter(v)

Spec == Init /\ [][Next]_vars

----------------------------------------------------------------------------
(* What the claims speak of, read off the lines of a table.                *)

AllProducts == Items \cup WideItems

\* the invoices of a table: its baskets
InvoicesOf(dd) == {dd[k].InvoiceNo : k \in 1..Len(dd)}

\* the products named on the lines of invoice i
ProductsOn(dd, i) == {dd[k].Description : k \in {j \in 1..Len(dd) : dd[j].InvoiceNo = i}} \ {NaN}

\* the number of baskets that contain every product of S
Count(dd, S) == Cardinality({i \in InvoicesOf(dd) : S \subseteq ProductsOn(dd, i)})

NBaskets(dd) == Cardinality(InvoicesOf(dd))

PanelRules == IF app = "panel" THEN assoc.rules ELSE NoRules

Zero == Frac(0, 1)

One == Frac(1, 1)

Hundred == Frac(100, 1)

----------------------------------------------------------------------------
(* C1 .. C10                                                               *)

\* C1: every computed rule of a pair {A, B} has Support equal to the number
\* of baskets that contain both A and B divided by the number of baskets.
C1_SupportIsCoOccurrenceShare ==
    \A k \in 1..Len(PanelRules) :
        LET r == PanelRules[k]
        IN  /\ NBaskets(d) > 0
            /\ r.Support.den > 0
            /\ FEq(r.Support, Frac(Count(d, {r.A, r.B}), NBaskets(d)))

\* a rule whose pair is in two of three baskets has been computed
C1_Witness ==
    \E k \in 1..Len(PanelRules) :
        /\ Count(d, {PanelRules[k].A, PanelRules[k].B}) = 2
        /\ NBaskets(d) = 3
        /\ FEq(PanelRules[k].Support, Frac(2, 3))

RuleOf(rules, a, b) == SelectSeq(rules, LAMBDA r : r.A = a /\ r.B = b)

MinedScenario1 == app = "panel" /\ ~view_error /\ d = Scenario1

Scenario1Counts ==
    /\ dict_get(assoc.item_counts, "A", 0) = 3
    /\ dict_get(assoc.item_counts, "B", 0) = 2
    /\ dict_get(assoc.pair_counts, <<"A", "B">>, 0) = 2
    /\ Len(RuleOf(assoc.rules, "A", "B")) = 1

PanelPairCount(a, b) == dict_get(assoc.pair_counts, <<a, b>>, 0)

\* C5: after counting, the pair counter of two distinct products is the
\* number of invoices that have a line of each, whatever the number of
\* lines or units of either product on the invoice.
C5_PairCountedOncePerBasket ==
    (app = "panel" /\ d # <<>>) =>
        \A a \in AllProducts, b \in AllProducts :
            Rank(a) < Rank(b) => PanelPairCount(a, b) = Count(d, {a, b})

\* an invoice with two lines of one product and a line of another, whose
\* pair is counted once
C5_Witness ==
    /\ app = "panel"
    /\ \E j \in 1..Len(d), k \in 1..Len(d) :
        /\ j < k
        /\ d[j].InvoiceNo = d[k].InvoiceNo
        /\ d[j].Description = d[k].Description
        /\ d[k].Quantity > 1
        /\ \E b \in AllProducts :
            /\ Rank(d[j].Description) < Rank(b)
            /\ PanelPairCount(d[j].Description, b) = 1

\* table dd without its k-th line
without(dd, k) == SubSeq(dd, 1, k - 1) \o SubSeq(dd, k + 1, Len(dd))

\* C6: a line of negative Quantity is excluded from basket construction and
\* from revenue: the baskets, item counts and pair counts the page computed,
\* and the revenue total, are those of the table without that line.
C6_NegativeQuantityLineExcluded ==
    (app = "panel" /\ ~view_error) =>
        \A k \in 1..Len(d) :
            d[k].Quantity < 0 =>
                LET rest == without(d, k)
                    baskets == baskets_of(rest)
                IN  /\ assoc.baskets = baskets
                    /\ assoc.item_counts = item_counts_of(baskets)
                    /\ assoc.pair_counts = pair_counts_of(baskets)
                    /\ total_revenue(d) = total_revenue(rest)

\* first-principles values of the rule A -> B over table dd
LiftOf(dd, a, b) ==
    FDiv(Frac(Count(dd, {a, b}), Count(dd, {a})), Frac(Count(dd, {b}), NBaskets(dd)))

ConfidencePctOf(dd, a, b) == Frac(100 * Count(dd, {a, b}), Count(dd, {a}))

SupportOf(dd, a, b) == Frac(Count(dd, {a, b}), NBaskets(dd))

\* the pairs (a, b), a before b, that share a basket of dd
PairsOf(dd) ==
    {p \in AllProducts \X AllProducts :
        Rank(p[1]) < Rank(p[2]) /\ Count(dd, {p[1], p[2]}) > 0}

PassesPanelThresholds(p) ==
    /\ FGe(LiftOf(d, p[1], p[2]), Frac(min_lift, 10))
    /\ FGe(ConfidencePctOf(d, p[1], p[2]), Frac(min_conf, 1))

Shown(rules, p) == \E k \in 1..Len(rules) : rules[k].A = p[1] /\ rules[k].B = p[2]

LiftDescending(rules) ==
    \A j \in 1..Len(rules), k \in 1..Len(rules) :
        j < k => FGe(rules[j].Lift_A_to_B, rules[k].Lift_A_to_B)

\* C8 as stated: the returned rules are in descending order of Lift, and of
\* two rules of equal Lift the one of higher Support comes first.
C8_LiftThenSupportOrder ==
    (app = "panel" /\ ~view_error) =>
        /\ LiftDescending(assoc.rules_top)
        /\ \A j \in 1..Len(assoc.rules_top), k \in 1..Len(assoc.rules_top) :
                (j < k /\ FEq(assoc.rules_top[j].Lift_A_to_B, assoc.rules_top[k].Lift_A_to_B))
                    => FGe(assoc.rules_top[j].Support, assoc.rules_top[k].Support)

\* C8 amended: the filtered rules and the rules table are in descending
\* order of Lift_A_to_B; the order of rules of equal Lift is not fixed by
\* Support.
C8_LiftDescendingOrder ==
    (app = "panel" /\ ~view_error) =>
        /\ LiftDescending(assoc.rules_filtered)
        /\ LiftDescending(assoc.rules_top)

\* the rules table holds rules of different Lift, in another order than the
\* one they were computed in
C8_Witness ==
    /\ app = "panel" /\ ~view_error
    /\ Len(assoc.rules_top) >= 2
    /\ FGt(assoc.rules_top[1].Lift_A_to_B, assoc.rules_top[Len(assoc.rules_top)].Lift_A_to_B)
    /\ assoc.rules_filtered # rules_mask(assoc.rules, Frac(min_lift, 10), Frac(min_conf, 1))

\* the support thresholds the mining is asked for
SupportThresholds == {Frac(0, 1), Frac(1, 100), Frac(1, 2)}

RuleSet(rules) == {rules[k] : k \in 1..Len(rules)}

C10_OneRulePerUnorderedPair ==
    \A j \in 1..Len(PanelRules) :
        /\ PanelRules[j].A # PanelRules[j].B
        /\ \A k \in 1..Len(PanelRules) :
                {PanelRules[j].A, PanelRules[j].B} = {PanelRules[k].A, PanelRules[k].B}
                    => j = k

\* several rules were computed, one of them for a pair that two baskets hold
C10_Witness ==
    /\ Len(PanelRules) >= 2
    /\ \E k \in 1..Len(PanelRules) : PanelPairCount(PanelRules[k].A, PanelRules[k].B) >= 2

----------------------------------------------------------------------------
(* C11 .. C20                                                              *)

\* the lines of dd that are not on invoice i
OffInvoice(dd, i) == SelectSeq(dd, LAMBDA r : r.InvoiceNo # i)

SmallBasket(dd, i) == Cardinality(ProductsOn(dd, i)) <= 1

\* C11: a basket of zero or one distinct product adds to no pair counter
\* (the pair counts are those of the table without its invoice), and when
\* every basket is such a basket there are no pair counts and no rules.
C11_SmallBasketsGiveNoPairs ==
    (app = "panel" /\ ~view_error) =>
        /\ \A i \in InvoicesOf(d) :
                SmallBasket(d, i) =>
                    assoc.pair_counts = pair_counts_of(baskets_of(OffInvoice(d, i)))
        /\ (\A i \in InvoicesOf(d) : SmallBasket(d, i)) =>
                /\ assoc.pair_counts = <<>>
                /\ assoc.rules = NoRules
                /\ assoc.rules_filtered = NoRules
                /\ assoc.rules_top = NoRules
                /\ assoc.shows \in {"No transactions for current filters.",
                                    "Not enough product combinations to build associations."}

\* a basket of one product and a basket without product (its one line has
\* no Description) next to a basket whose pair is counted
C11_Witness ==
    /\ app = "panel" /\ ~view_error
    /\ \E i \in InvoicesOf(d) : Cardinality(ProductsOn(d, i)) = 1
    /\ \E i \in InvoicesOf(d) : Cardinality(ProductsOn(d, i)) = 0
    /\ Len(assoc.pair_counts) >= 1

\* the invoices of dd that have a line of positive Quantity, and those of
\* them that have such a line of product p
SoldInvoices(dd) == {dd[k].InvoiceNo : k \in {j \in 1..Len(dd) : dd[j].Quantity > 0}}

SoldInvoicesOf(dd, p) ==
    {dd[k].InvoiceNo : k \in {j \in 1..Len(dd) : dd[j].Quantity > 0 /\ dd[j].Description = p}}

\* C12: the frequency of a product is the number of baskets that hold it
\* divided by the number of all baskets, those of fewer than two products
\* included: on the Panel page item_counts and n_transactions = len(baskets)
\* are these two numbers, on the Streamlit page the Frequency column of the
\* Top 10 Products table is their quotient.
C12_ItemFrequencyOverAllBaskets ==
    /\ (app = "panel" /\ ~view_error) =>
            /\ Len(assoc.baskets) = NBaskets(d)
            /\ \A p \in AllProducts : dict_get(assoc.item_counts, p, 0) = Count(d, {p})
            /\ \A k \in 1..Len(assoc.item_counts) :
                    /\ assoc.item_counts[k].key \in AllProducts
                    /\ FEq(Frac(assoc.item_counts[k].val, Len(assoc.baskets)),
                           Frac(Count(d, {assoc.item_counts[k].key}), NBaskets(d)))
    /\ (app = "streamlit" /\ st_view.shows # "ValueError") =>
            /\ Len(st_view.top_10_items) = TopProducts
            /\ \A k \in 1..Len(st_view.top_10_items) :
                    LET r == st_view.top_10_items[k]
                    IN  /\ Cardinality(SoldInvoices(retail)) > 0
                        /\ FEq(r.Frequency,
                               Frac(Cardinality(SoldInvoicesOf(retail, r.Product)),
                                    Cardinality(SoldInvoices(retail))))

\* a product that is alone in one basket and with another product in a
\* second one: its count is 2, of 3 baskets
C12_Witness ==
    /\ app = "panel" /\ ~view_error
    /\ NBaskets(d) = 3
    /\ \E p \in AllProducts :
        /\ dict_get(assoc.item_counts, p, 0) = 2
        /\ \E i \in InvoicesOf(d) : ProductsOn(d, i) = {p}
        /\ \E i \in InvoicesOf(d) : p \in ProductsOn(d, i) /\ Cardinality(ProductsOn(d, i)) = 2

NoRulesStates ==
    {"No transactions for current filters.",
     "Not enough product combinations to build associations.",
     "No rules match the current thresholds."}

\* C13: when no pair passes the filters, rule mining ends without an error
\* with an empty rule set and the page shows its 'no rules found' state.
C13_NoRulesFoundShown ==
    /\ (app = "panel" /\ ~view_error) =>
            ((\A p \in PairsOf(d) : ~PassesPanelThresholds(p)) =>
                /\ assoc.rules_filtered = NoRules
                /\ assoc.rules_top = NoRules
                /\ assoc.shows \in NoRulesStates)
    /\ app = "streamlit" =>
            (filtered_pairs_of(st_cache.pairs, Frac(st_min_lift, 10),
                               Frac(st_min_confidence, 1)) = NoRules =>
                /\ st_view.filtered_pairs = NoRules
                /\ st_view.display_pairs = NoRules
                /\ st_view.shows = "No Rules Found")

----------------------------------------------------------------------------
(* The basket engine called step by step: mine_rules validates its         *)
(* thresholds, builds the baskets, counts the items, derives the rules.    *)

\* Mutant: only min_support is validated, and only from above
valid_thresholds_upper_support(min_support_val, min_lift_val, min_confidence_val) ==
    FGe(One, min_support_val)

\* min_support and min_confidence are in [0, 1], min_lift is not negative
valid_thresholds(min_support_val, min_lift_val, min_confidence_val) ==
    /\ FGe(min_support_val, Zero) /\ FGe(One, min_support_val)
    /\ FGe(min_lift_val, Zero)
    /\ FGe(min_confidence_val, Zero) /\ FGe(One, min_confidence_val)

\* Thresholds a caller may pass, inside and outside their domains
SupportValues == {Frac(0, 1), Frac(1, 100), Frac(1, 1), Frac(3, 2), Frac(-1, 10)}

LiftValues == {Frac(0, 1), Frac(3, 2), Frac(-1, 1)}

ConfidenceValues == {Frac(0, 1), Frac(1, 2), Frac(1, 1), Frac(2, 1), Frac(-1, 2)}

\* mine_rules(transactions, min_support, min_lift, min_confidence) is
\* entered: the parameters are validated first
CallMineRules(s, l, c) ==
    /\ app = "engine"
    /\ call.pc = "idle"
    /\ call' = IF valid_thresholds(s, l, c)
               THEN [NoCall EXCEPT !.pc = "baskets", !.min_support = s,
                                   !.min_lift = l, !.min_confidence = c]
               ELSE [NoCall EXCEPT !.pc = "raised", !.min_support = s,
                                   !.min_lift = l, !.min_confidence = c,
                                   !.raised = "InvalidParameterError"]
    /\ UNCHANGED <<app, retail, sort_kind, panel_widgets, d, view_error, assoc,
                   st_widgets, st_cache, st_view, rfm, customer_view,
                   forecast_cache, forecast_view,
                other_pages>>

EngineFrame ==
    UNCHANGED <<app, retail, sort_kind, panel_widgets, d, view_error, assoc,
                st_widgets, st_cache, st_view, rfm, customer_view,
                forecast_cache, forecast_view,
                other_pages>>

\* step 1: the baskets
BuildBaskets ==
    /\ app = "engine"
    /\ call.pc = "baskets"
    /\ call' = [call EXCEPT !.pc = "items", !.baskets = prepare_basket_analysis(retail)]
    /\ EngineFrame

\* step 2: the frequency of each item
CountItems ==
    /\ app = "engine"
    /\ call.pc = "items"
    /\ call' = [call EXCEPT !.pc = "pairs",
                            !.frequent_items =
                                mine_rules(call.baskets, call.min_support, call.min_lift,
                                           call.min_confidence).frequent_items]
    /\ EngineFrame

\* steps 3 to 5: the rules, filtered and sorted; the call returns
DeriveRules ==
    /\ app = "engine"
    /\ call.pc = "pairs"
    /\ call' = [call EXCEPT !.pc = "returned",
                            !.pairs =
                                mine_rules(call.baskets, call.min_support, call.min_lift,
                                           call.min_confidence).pairs]
    /\ EngineFrame

\* the caller makes another call
NextCall ==
    /\ app = "engine"
    /\ call.pc \in {"raised", "returned"}
    /\ call' = NoCall
    /\ EngineFrame

EngineInit ==
    /\ app = "engine"
    /\ sort_kind = "stable"
    /\ retail \in PageTables
    /\ country_filter = DefaultCountryFilter
    /\ date_range = DefaultDateRange
    /\ customer_filter = DefaultCustomerFilter
    /\ min_lift = DefaultMinLift
    /\ min_conf = DefaultMinConf
    /\ top_n_rules = DefaultTopN
    /\ view_error = FALSE
    /\ d = <<>>
    /\ assoc = NotRendered
    /\ st_min_lift = DefaultStMinLift
    /\ st_min_confidence = DefaultStMinConfidence
    /\ max_rules = DefaultMaxRules
    /\ st_cache = [frequent_items |-> <<>>, pairs |-> NoRules]
    /\ st_view = [shows |-> "", top_10_items |-> <<>>,
                  filtered_pairs |-> NoRules, display_pairs |-> NoRules]
    /\ AnalyticsIdle

EngineNext ==
    \/ \E s \in SupportValues, l \in LiftValues, c \in ConfidenceValues : CallMineRules(s, l, c)
    \/ BuildBaskets
    \/ CountItems
    \/ DeriveRules
    \/ NextCall

EngineSpec == EngineInit /\ [][EngineNext]_vars

\* the domains of the thresholds, as fractions num / den with den > 0
InUnitInterval(x) == 0 <= x.num /\ x.num <= x.den

----------------------------------------------------------------------------
(* The RFM engine: compute_rfm (create_rfm_features of the Streamlit page, *)
(* the rfm table load_clean_data hands to the Panel page).                 *)

CustomerIds == <<"c1", "c2", "c3">>

CustomerRank(c) == CHOOSE i \in 1..Len(CustomerIds) : CustomerIds[i] = c

CustomerCountry(c) == IF c = "c2" THEN "France" ELSE "United Kingdom"

\* A line of invoice i, dated day i, of customer c (or of no customer)
CustomerLine(i, c, q) ==
    [Line(i, "A", q) EXCEPT !.CustomerID = c, !.Country = CustomerCountry(c)]

\* What invoice i holds: nothing, a sale, or a sale and its return
InvoiceOptions ==
    {<<>>} \cup {<<c, k>> : c \in {CustomerIds[j] : j \in 1..Len(CustomerIds)} \cup {NaN},
                            k \in {"sale", "returned"}}

InvoiceLines(i, o) ==
    IF o = <<>> THEN <<>>
    ELSE IF o[2] = "sale" THEN <<CustomerLine(i, o[1], 1)>>
    ELSE <<CustomerLine(i, o[1], 1), CustomerLine(i, o[1], -1)>>

\* The tables of the customer pages: every choice for every invoice
RfmTables ==
    {concat([i \in 1..NumInvoices |-> InvoiceLines(i, o[i])]) :
        o \in [1..NumInvoices -> InvoiceOptions]}

RECURSIVE sum_ints(_)
sum_ints(x) == IF x = <<>> THEN 0 ELSE Head(x) + sum_ints(Tail(x))

Max(S) == CHOOSE x \in S : \A y \in S : y <= x

MinOf(S) == CHOOSE x \in S : \A y \in S : x <= y

RECURSIVE sorted_customers(_)
sorted_customers(S) ==
    IF S = {} THEN <<>>
    ELSE LET m == CHOOSE x \in S : \A y \in S : CustomerRank(x) <= CustomerRank(y)
         IN  <<m>> \o sorted_customers(S \ {m})

\* the number of quantile classes of the scores
NumQuantiles == 5

\* Quantile score 1..NumQuantiles of value x among the values of all
\* customers: the class of its rank, equal values in the same class
quantile_score(x, values) ==
    1 + (NumQuantiles * Cardinality({k \in 1..Len(values) : values[k] < x})) \div Len(values)

Segments ==
    {"Champions", "Loyal Customers", "Potential Loyalists", "Promising", "At Risk",
     "Hibernating", "Lost", "New Customers", "Others"}

\* The rule-based mapping of the three scores to a label
segment(r, f, m) ==
    IF r >= 4 /\ f >= 4 /\ m >= 4 THEN "Champions"
    ELSE IF r >= 3 /\ f >= 3 /\ m >= 3 THEN "Loyal Customers"
    ELSE IF r >= 4 /\ f = 1 THEN "New Customers"
    ELSE IF r >= 4 THEN "Potential Loyalists"
    ELSE IF r = 3 THEN "Promising"
    ELSE IF r <= 2 /\ f >= 3 THEN "At Risk"
    ELSE IF r = 2 /\ m <= 2 THEN "Hibernating"
    ELSE IF r = 1 /\ m <= 2 THEN "Lost"
    ELSE "Others"

\* compute_rfm(transactions, reference_date): one row per CustomerID of the
\* lines that have one, in ascending order of CustomerID
compute_rfm(transactions, reference_date) ==
    LET lines == SelectSeq(transactions, LAMBDA t : t.CustomerID # NaN)
        customers == sorted_customers({lines[k].CustomerID : k \in 1..Len(lines)})
        of(c) == SelectSeq(lines, LAMBDA t : t.CustomerID = c)
        last(c) == Max({of(c)[k].InvoiceDate : k \in 1..Len(of(c))})
        features(c) ==
            [CustomerID |-> c,
             Recency |-> reference_date - last(c),
             Frequency |-> Cardinality({of(c)[k].InvoiceNo : k \in 1..Len(of(c))}),
             Monetary |-> sum_ints([k \in 1..Len(of(c)) |-> of(c)[k].TotalAmount]),
             LastPurchase |-> last(c),
             Country |-> of(c)[1].Country]
        rows == [j \in 1..Len(customers) |-> features(customers[j])]
        column(name) == [j \in 1..Len(rows) |-> rows[j][name]]
        label(x) ==
            segment((NumQuantiles + 1) - quantile_score(x.Recency, column("Recency")),
                    quantile_score(x.Frequency, column("Frequency")),
                    quantile_score(x.Monetary, column("Monetary")))
    IN  [j \in 1..Len(rows) |->
            [CustomerID |-> rows[j].CustomerID, Recency |-> rows[j].Recency,
             Frequency |-> rows[j].Frequency, Monetary |-> rows[j].Monetary,
             LastPurchase |-> rows[j].LastPurchase, Country |-> rows[j].Country,
             Segment |-> label(rows[j])]]

\* create_rfm_features(df): compute_rfm with the default reference date,
\* the day after the last invoice date of the table
create_rfm_features(df) ==
    IF df = <<>> THEN <<>>
    ELSE compute_rfm(df, Max({df[k].InvoiceDate : k \in 1..Len(df)}) + 1)

----------------------------------------------------------------------------
(* The customer pages: src/pages/customer_analysis.py (Panel) and          *)
(* src/pages/2_..._Customer_Analysis.py (Streamlit).                       *)

\* global_filters(df): the values of the three widgets after construction
global_filters(df) ==
    [country_filter |-> {df[k].Country : k \in 1..Len(df)},
     date_range |-> <<MinOf({df[k].InvoiceDate : k \in 1..Len(df)}),
                      Max({df[k].InvoiceDate : k \in 1..Len(df)})>>,
     customer_filter |-> ""]

\* Mutant: the date filter keeps LastPurchase > start only
filtered_rfm_after_start(table, countries, range, customer) ==
    LET d1 == IF countries # {}
              THEN SelectSeq(table, LAMBDA r : r.Country \in countries)
              ELSE table
        d3 == SelectSeq(d1, LAMBDA r : /\ r.LastPurchase > range[1]
                                       /\ r.LastPurchase <= range[2])
    IN  IF customer # "" THEN [raised |-> TRUE, d |-> <<>>]
        ELSE [raised |-> FALSE, d |-> d3]

\* filtered_rfm(): the filtered copy of rfm, or the TypeError pandas raises
\* for isin() of a str (AutocompleteInput.value is a str)
filtered_rfm(table, countries, range, customer) ==
    LET d1 == IF countries # {}
              THEN SelectSeq(table, LAMBDA r : r.Country \in countries)
              ELSE table
        d3 == SelectSeq(d1, LAMBDA r : /\ r.LastPurchase >= range[1]
                                       /\ r.LastPurchase <= range[2])
    IN  IF customer # "" THEN [raised |-> TRUE, d |-> <<>>]
        ELSE [raised |-> FALSE, d |-> d3]

\* Where label x goes in the counts, which are in descending order
RECURSIVE insert_count(_, _)
insert_count(counts, x) ==
    IF counts = <<>> THEN <<x>>
    ELSE IF x.Count > Head(counts).Count THEN <<x>> \o counts
    ELSE <<Head(counts)>> \o insert_count(Tail(counts), x)

RECURSIVE sort_counts(_, _)
sort_counts(done, counts) ==
    IF counts = <<>> THEN done
    ELSE sort_counts(insert_count(done, Head(counts)), Tail(counts))

\* Series.value_counts(): the number of rows of each label, rows without a
\* label left out, the most frequent label first
value_counts(column) ==
    LET counted == count_all(<<>>, dropna(column))
    IN  sort_counts(<<>>, [k \in 1..Len(counted) |->
                            [Segment |-> counted[k].key, Count |-> counted[k].val]])

\* kpi_row(d)
customer_kpi_row(dd) ==
    IF dd = <<>> THEN [shows |-> "No customer data for current filters."]
    ELSE [shows |-> "kpis",
          total_customers |-> Cardinality({dd[k].CustomerID : k \in 1..Len(dd)}),
          avg_recency |-> Frac(sum_ints([k \in 1..Len(dd) |-> dd[k].Recency]), Len(dd)),
          avg_frequency |-> Frac(sum_ints([k \in 1..Len(dd) |-> dd[k].Frequency]), Len(dd)),
          avg_monetary |-> Frac(sum_ints([k \in 1..Len(dd) |-> dd[k].Monetary]), Len(dd))]

\* Mutant: the labels are counted in the unfiltered rfm table
segment_distribution_of_rfm(dd) ==
    IF dd = <<>> THEN [shows |-> "No segment data for current filters.", seg |-> <<>>]
    ELSE [shows |-> "bars", seg |-> value_counts([k \in 1..Len(rfm) |-> rfm[k].Segment])]

\* segment_distribution(d)
segment_distribution(dd) ==
    IF dd = <<>> THEN [shows |-> "No segment data for current filters.", seg |-> <<>>]
    ELSE [shows |-> "bars", seg |-> value_counts([k \in 1..Len(dd) |-> dd[k].Segment])]

\* What the Panel customer page shows for the filtered table dd
customer_page(dd) ==
    [kpi_row |-> customer_kpi_row(dd), segment_distribution |-> segment_distribution(dd)]

\* One run of the Streamlit customer page over the cached rfm table
st_customer_run(table) ==
    LET segment_counts == value_counts([k \in 1..Len(table) |-> table[k].Segment])
    IN  IF segment_counts = <<>> THEN
            \* segment_counts.iloc[0] raises IndexError
            [shows |-> "IndexError", total_customers |-> Len(table),
             segment_counts |-> segment_counts]
        ELSE [shows |-> "segments", total_customers |-> Len(table),
              segment_counts |-> segment_counts]

\* The recomputation every widget of the Panel customer page triggers: the
\* views are replaced when filtered_rfm returns, left as they were when it
\* raises
CustomerRefresh ==
    LET f == filtered_rfm(rfm, country_filter', date_range', customer_filter')
    IN  IF f.raised
        THEN /\ view_error' = TRUE
             /\ UNCHANGED <<d, customer_view>>
        ELSE /\ view_error' = FALSE
             /\ d' = f.d
             /\ customer_view' = customer_page(f.d)

CustomerFrame ==
    UNCHANGED <<app, retail, sort_kind, min_lift, min_conf, top_n_rules, assoc,
                st_widgets, st_cache, st_view, call, rfm, forecast_cache, forecast_view,
                other_pages>>

RfmCountryFilterValues == {Countries, {"France"}, {}}

RfmDateRangeValues == {<<1, NumInvoices>>, <<2, NumInvoices>>, <<1, 1>>}

RfmCustomerFilterValues == {"", "c1"}

SetRfmCountryFilter(v) ==
    /\ app = "panel_customers"
    /\ country_filter' = v
    /\ UNCHANGED <<date_range, customer_filter>>
    /\ CustomerRefresh
    /\ CustomerFrame

SetRfmDateRange(v) ==
    /\ app = "panel_customers"
    /\ date_range' = v
    /\ UNCHANGED <<country_filter, customer_filter>>
    /\ CustomerRefresh
    /\ CustomerFrame

SetRfmCustomerFilter(v) ==
    /\ app = "panel_customers"
    /\ customer_filter' = v
    /\ UNCHANGED <<country_filter, date_range>>
    /\ CustomerRefresh
    /\ CustomerFrame

\* A rerun of the Streamlit customer page: load_all_data() returns the
\* cached tables
StCustomerRerun ==
    /\ app = "streamlit_customers"
    /\ customer_view' = st_customer_run(rfm)
    /\ UNCHANGED <<app, retail, sort_kind, panel_widgets, d, view_error, assoc,
                   st_widgets, st_cache, st_view, call, rfm, forecast_cache, forecast_view,
                other_pages>>

\* the variables of the basket pages, which the other pages leave alone
BasketIdle ==
    /\ sort_kind = "stable"
    /\ min_lift = DefaultMinLift
    /\ min_conf = DefaultMinConf
    /\ top_n_rules = DefaultTopN
    /\ assoc = NotRendered
    /\ st_min_lift = DefaultStMinLift
    /\ st_min_confidence = DefaultStMinConfidence
    /\ max_rules = DefaultMaxRules
    /\ st_cache = [frequent_items |-> <<>>, pairs |-> NoRules]
    /\ st_view = [shows |-> "", top_10_items |-> <<>>,
                  filtered_pairs |-> NoRules, display_pairs |-> NoRules]

\* The Panel customer page, first rendered over the table t and its rfm table
CustomerPanelInit(t) ==
    /\ app = "panel_customers"
    /\ retail = t
    /\ rfm = create_rfm_features(t)
    /\ country_filter = global_filters(t).country_filter
    /\ date_range = global_filters(t).date_range
    /\ customer_filter = global_filters(t).customer_filter
    /\ view_error = FALSE
    /\ d = filtered_rfm(rfm, country_filter, date_range, customer_filter).d
    /\ customer_view = customer_page(d)
    /\ BasketIdle
    /\ call = NoCall
    /\ forecast_cache = NoForecast
    /\ forecast_view = NoForecastView
    /\ OtherPagesIdle

\* The Streamlit customer page, first run over the table t
StCustomerInit(t) ==
    /\ app = "streamlit_customers"
    /\ retail = t
    /\ rfm = create_rfm_features(t)
    /\ country_filter = DefaultCountryFilter
    /\ date_range = DefaultDateRange
    /\ customer_filter = DefaultCustomerFilter
    /\ view_error = FALSE
    /\ d = <<>>
    /\ customer_view = st_customer_run(rfm)
    /\ BasketIdle
    /\ call = NoCall
    /\ forecast_cache = NoForecast
    /\ forecast_view = NoForecastView
    /\ OtherPagesIdle

CustomerInit ==
    \/ \E t \in RfmTables \ {<<>>} : CustomerPanelInit(t)
    \/ \E t \in RfmTables : StCustomerInit(t)

CustomerNext ==
    \/ \E v \in RfmCountryFilterValues : SetRfmCountryFilter(v)
    \/ \E v \in RfmDateRangeValues : SetRfmDateRange(v)
    \/ \E v \in RfmCustomerFilterValues : SetRfmCustomerFilter(v)
    \/ StCustomerRerun

CustomerSpec == CustomerInit /\ [][CustomerNext]_vars

\* the customers named on the lines of a table, and their invoices
CustomersOf(t) == {t[k].CustomerID : k \in 1..Len(t)} \ {NaN}

InvoicesOfCustomer(t, c) == {t[k].InvoiceNo : k \in {j \in 1..Len(t) : t[j].CustomerID = c}}

OnCustomerPage == app \in {"panel_customers", "streamlit_customers"}

RowsOf(table, c) == {k \in 1..Len(table) : table[k].CustomerID = c}

\* C15: every CustomerID of the input has exactly one row in the RFM
\* table, every row is a customer of the input, and every row has
\* Recency >= 0 and Frequency >= 1 (the number of the customer's invoices);
\* the pages count these rows: all of them on the Streamlit page and, under
\* the filters the page starts with, on the Panel page.
C15_EveryCustomerOnceInRfm ==
    OnCustomerPage =>
        /\ \A c \in CustomersOf(retail) : Cardinality(RowsOf(rfm, c)) = 1
        /\ \A k \in 1..Len(rfm) :
                /\ rfm[k].CustomerID \in CustomersOf(retail)
                /\ rfm[k].Recency >= 0
                /\ rfm[k].Frequency >= 1
                /\ rfm[k].Frequency = Cardinality(InvoicesOfCustomer(retail, rfm[k].CustomerID))
        /\ app = "streamlit_customers" =>
                customer_view.total_customers = Cardinality(CustomersOf(retail))
        /\ (app = "panel_customers" /\ ~view_error) =>
                /\ \A k \in 1..Len(d) : Cardinality(RowsOf(d, d[k].CustomerID)) = 1
                /\ \A k \in 1..Len(d) : \E j \in 1..Len(rfm) : d[k] = rfm[j]
                /\ d # <<>> => customer_view.kpi_row.total_customers = Len(d)
                /\ (/\ country_filter = global_filters(retail).country_filter
                    /\ date_range = global_filters(retail).date_range) =>
                        \A c \in CustomersOf(retail) : Cardinality(RowsOf(d, c)) = 1

\* two customers, one of them with two invoices of several lines, on the
\* Panel page under the filters it starts with
C15_Witness ==
    /\ app = "panel_customers" /\ ~view_error
    /\ Cardinality(CustomersOf(retail)) = 2
    /\ Len(retail) > NumInvoices
    /\ \E k \in 1..Len(d) : d[k].Frequency = 2
    /\ Len(d) = 2
    /\ customer_view.kpi_row.total_customers = 2

\* the counts are those of the labels of the rows of table: one entry per
\* label that a row has, with the number of such rows
CountsLabelsOf(counts, table) ==
    /\ \A j \in 1..Len(counts), k \in 1..Len(counts) :
            counts[j].Segment = counts[k].Segment => j = k
    /\ \A k \in 1..Len(counts) :
            /\ counts[k].Segment \in Segments
            /\ counts[k].Count =
                    Cardinality({j \in 1..Len(table) : table[j].Segment = counts[k].Segment})
            /\ counts[k].Count >= 1
    /\ sum_ints([k \in 1..Len(counts) |-> counts[k].Count]) = Len(table)

----------------------------------------------------------------------------
(* The forecast engine: forecast_sales of utils.ml_models, which is not    *)
(* part of the source and follows the specification's Forecast Engine.     *)
(* Months are calendar months; the values of the series and of the         *)
(* forecast are exact fractions.                                           *)

HistoryMonths == 4

MonthsPerYear == 12

\* a date of the table: a day of the j-th month of the history, which begins
\* in November 2010
DateOf(j, day) ==
    LET m == 2010 * MonthsPerYear + 10 + (j - 1)
    IN  [year |-> m \div MonthsPerYear, month |-> (m % MonthsPerYear) + 1, day |-> day]

SalesLine(i, j, day, amount) ==
    [InvoiceNo |-> i, Description |-> "A", Quantity |-> IF amount < 0 THEN -1 ELSE 1,
     TotalAmount |-> amount, Country |-> "United Kingdom", CustomerID |-> "c1",
     InvoiceDate |-> DateOf(j, day)]

MonthOptions == {"none", "rising", "falling", "flat"}

\* the lines of the j-th month: none, one sale of a rising amount, a sale of
\* a falling amount followed by a return, or a sale of a fixed amount
MonthLines(j, o) ==
    IF o = "rising" THEN <<SalesLine(2 * j, j, 5, 90 + 10 * j)>>
    ELSE IF o = "falling" THEN <<SalesLine(2 * j, j, 3, 200 - 50 * j),
                                 SalesLine(2 * j + 1, j, 17, -10)>>
    ELSE IF o = "flat" THEN <<SalesLine(2 * j, j, 28, 100)>>
    ELSE <<>>

ForecastTables ==
    {concat([j \in 1..HistoryMonths |-> MonthLines(j, f[j])]) :
        f \in [1..HistoryMonths -> MonthOptions]}

\* the series of specification 8, Scenario 3: 100, 110, 120, 130
Scenario3 == concat([j \in 1..HistoryMonths |-> MonthLines(j, "rising")])

\* the greatest common divisor of two naturals, by Euclid's algorithm
gcd[a \in Nat, b \in Nat] == IF b = 0 THEN a ELSE gcd[b, a % b]

abs(x) == IF x < 0 THEN -x ELSE x

\* a fraction in lowest terms with a positive denominator
FReduce(x) ==
    LET s == IF x.den < 0 THEN -1 ELSE 1
        g == gcd[abs(x.num), abs(x.den)]
    IN  Frac((s * x.num) \div g, (s * x.den) \div g)

Fractions == [num : Int, den : Int]

\* the least common multiple of the denominators of a sequence of fractions
lcm_den[x \in Seq(Fractions)] ==
    IF x = <<>> THEN 1
    ELSE LET l == lcm_den[Tail(x)]
         IN  (abs(Head(x).den) \div gcd[abs(Head(x).den), l]) * l

\* x + y + ... of a sequence of fractions, over their common denominator
fsum(x) ==
    LET l == lcm_den[x]
    IN  FReduce(Frac(sum_ints([k \in 1..Len(x) |-> x[k].num * (l \div x[k].den)]), l))

FAdd(x, y) == fsum(<<x, y>>)

FSub(x, y) == FAdd(x, Frac(-y.num, y.den))

\* the calendar month of a date, counted from year 0
month_index(date) == date.year * MonthsPerYear + (date.month - 1)

\* the first day of the month after the month of a date
next_month(date) ==
    IF date.month = MonthsPerYear
    THEN [year |-> date.year + 1, month |-> 1, day |-> 1]
    ELSE [year |-> date.year, month |-> date.month + 1, day |-> 1]

\* TotalAmount summed by calendar month, one point per month present in the
\* data, in time order
monthly_series(transactions) ==
    LET months == sorted_ints({month_index(transactions[k].InvoiceDate) :
                                    k \in 1..Len(transactions)})
        total(m) ==
            sum_ints([k \in 1..Len(transactions) |->
                        IF month_index(transactions[k].InvoiceDate) = m
                        THEN transactions[k].TotalAmount ELSE 0])
    IN  [k \in 1..Len(months) |->
            [Date |-> [year |-> months[k] \div MonthsPerYear,
                       month |-> (months[k] % MonthsPerYear) + 1, day |-> 1],
             Revenue |-> total(months[k])]]

\* the value of the least-squares line through the n points of the series
\* (at times 0 .. n-1) at time t
trend_at(series, t) ==
    LET n   == Len(series)
        st  == sum_ints([k \in 1..n |-> k - 1])
        stt == sum_ints([k \in 1..n |-> (k - 1) * (k - 1)])
        sy  == sum_ints([k \in 1..n |-> series[k].Revenue])
        sty == sum_ints([k \in 1..n |-> (k - 1) * series[k].Revenue])
        den == n * stt - st * st
        slope == n * sty - st * sy
    IN  FReduce(Frac(sy * den - slope * st + slope * n * t, n * den))

Margin == 15

RECURSIVE future_dates(_, _)
future_dates(date, periods) ==
    IF periods <= 0 THEN <<>>
    ELSE <<next_month(date)>> \o future_dates(next_month(date), periods - 1)

\* A ForecastPoint h months after the last observed month: the trend, not
\* below zero, and the bounds Forecast * (1 -/+ margin)
forecast_point(series, date, h) ==
    LET t == trend_at(series, Len(series) - 1 + h)
        f == IF t.num < 0 THEN Frac(0, 1) ELSE t
    IN  [Date |-> date, Forecast |-> f,
         Lower_Bound |-> FReduce(Frac(f.num * (100 - Margin), f.den * 100)),
         Upper_Bound |-> FReduce(Frac(f.num * (100 + Margin), f.den * 100))]

InsufficientDataError == "InsufficientDataError"

\* forecast_sales(transactions, periods) for periods >= 0: the monthly
\* series and the ForecastPoints, or InsufficientDataError when the history
\* has fewer than 2 months
forecast_sales(transactions, periods) ==
    LET series == monthly_series(transactions)
    IN  IF Len(series) < 2 THEN
            [raised |-> InsufficientDataError, monthly_sales |-> <<>>, forecast |-> <<>>]
        ELSE LET dates == future_dates(series[Len(series)].Date, periods)
             IN  [raised |-> "", monthly_sales |-> series,
                  forecast |-> [h \in 1..Len(dates) |-> forecast_point(series, dates[h], h)]]

----------------------------------------------------------------------------
(* The Streamlit forecast page: src/pages/5_..._Predictive_Analytics.py.   *)

Periods == 12

reversed(x) == [k \in 1..Len(x) |-> x[Len(x) + 1 - k]]

column(table, name) == [k \in 1..Len(table) |-> table[k][name]]

month_order ==
    <<"January", "February", "March", "April", "May", "June",
      "July", "August", "September", "October", "November", "December">>

\* date.strftime('%B %Y')
strftime_month_year(date) == <<month_order[date.month], date.year>>

\* Mutant: the cached loader handing back empty results when the engine raises
load_forecast_data_without_stop(cache, df) ==
    IF cache.cached THEN [stopped |-> FALSE, error |-> "", value |-> cache, cache |-> cache]
    ELSE LET r == forecast_sales(df, Periods)
             v == [cached |-> TRUE, monthly_sales |-> r.monthly_sales, forecast |-> r.forecast]
         IN  [stopped |-> FALSE, error |-> "", value |-> v, cache |-> v]

\* load_forecast_data() under st.cache_data: the cached value when there is
\* one; else the engine's result with periods=12, cached when it returns;
\* when it raises, the message is shown and the script stops, nothing cached
load_forecast_data(cache, df) ==
    IF cache.cached THEN [stopped |-> FALSE, error |-> "", value |-> cache, cache |-> cache]
    ELSE LET r == forecast_sales(df, Periods)
             v == [cached |-> TRUE, monthly_sales |-> r.monthly_sales, forecast |-> r.forecast]
         IN  IF r.raised # ""
             THEN [stopped |-> TRUE, error |-> r.raised, value |-> cache, cache |-> cache]
             ELSE [stopped |-> FALSE, error |-> "", value |-> v, cache |-> v]

\* Series.mean(): NaN for an empty series
mean(x) ==
    IF x = <<>> THEN FNaN
    ELSE LET s == fsum(x) IN FReduce(Frac(s.num, s.den * Len(x)))

\* (fore_avg - hist_avg) / hist_avg * 100 in floats: NaN propagates, a
\* division by 0.0 gives inf
growth_of(fore_avg, hist_avg) ==
    IF fore_avg.den = 0 \/ hist_avg.den = 0 THEN FNaN
    ELSE IF hist_avg.num = 0 THEN (IF fore_avg.num = 0 THEN FNaN ELSE FInf)
    ELSE FReduce(FMul(FDiv(FSub(fore_avg, hist_avg), hist_avg), 100))

\* Mutant: the forecast average taken as the change against the history
forecast_summary_of_change(monthly_sales, forecast) ==
    LET hist_avg == mean([k \in 1..Len(monthly_sales) |-> Frac(monthly_sales[k].Revenue, 1)])
        fore_avg == IF forecast = <<>> \/ monthly_sales = <<>> THEN FNaN
                    ELSE FSub(mean(column(forecast, "Forecast")), hist_avg)
    IN  [hist_avg |-> hist_avg, fore_avg |-> fore_avg,
         growth |-> growth_of(fore_avg, hist_avg),
         total_fore |-> fsum(column(forecast, "Forecast"))]

\* hist_avg, fore_avg, growth and total_fore of the Forecast Summary
forecast_summary(monthly_sales, forecast) ==
    LET hist_avg == mean([k \in 1..Len(monthly_sales) |-> Frac(monthly_sales[k].Revenue, 1)])
        fore_avg == mean(column(forecast, "Forecast"))
    IN  [hist_avg |-> hist_avg, fore_avg |-> fore_avg,
         growth |-> growth_of(fore_avg, hist_avg),
         total_fore |-> fsum(column(forecast, "Forecast"))]

\* Mutant: the band drawn with the lower bounds in the order of the dates
fig_forecast_unreversed(monthly_sales, forecast) ==
    [historical |-> [x |-> column(monthly_sales, "Date"), y |-> column(monthly_sales, "Revenue")],
     forecasted |-> [x |-> column(forecast, "Date"), y |-> column(forecast, "Forecast")],
     interval   |-> [x |-> column(forecast, "Date") \o reversed(column(forecast, "Date")),
                     y |-> column(forecast, "Upper_Bound") \o column(forecast, "Lower_Bound")]]

\* The three traces of fig_forecast: the history, the forecast, and the
\* confidence interval drawn as one closed outline, the upper bounds forward
\* and the lower bounds backward
fig_forecast(monthly_sales, forecast) ==
    [historical |-> [x |-> column(monthly_sales, "Date"), y |-> column(monthly_sales, "Revenue")],
     forecasted |-> [x |-> column(forecast, "Date"), y |-> column(forecast, "Forecast")],
     interval   |-> [x |-> column(forecast, "Date") \o reversed(column(forecast, "Date")),
                     y |-> column(forecast, "Upper_Bound") \o reversed(column(forecast, "Lower_Bound"))]]

\* Series.pct_change() * 100
pct_change(x) ==
    [k \in 1..Len(x) |->
        IF k = 1 THEN FNaN
        ELSE IF x[k - 1].num = 0 THEN (IF x[k].num = 0 THEN FNaN ELSE FInf)
        ELSE FReduce(FMul(FDiv(FSub(x[k], x[k - 1]), x[k - 1]), 100))]

\* Mutant: the table of the forecast without its first row
forecast_display_from_second(forecast) ==
    LET growth == pct_change(column(forecast, "Forecast"))
    IN  [k \in 1..(Len(forecast) - 1) |->
            [Date |-> strftime_month_year(forecast[k + 1].Date),
             Forecast |-> forecast[k + 1].Forecast,
             Lower_Bound |-> forecast[k + 1].Lower_Bound,
             Upper_Bound |-> forecast[k + 1].Upper_Bound,
             MoM_Growth |-> growth[k + 1]]]

\* The rows of the Detailed Monthly Forecast table
forecast_display(forecast) ==
    LET growth == pct_change(column(forecast, "Forecast"))
    IN  [k \in 1..Len(forecast) |->
            [Date |-> strftime_month_year(forecast[k].Date),
             Forecast |-> forecast[k].Forecast,
             Lower_Bound |-> forecast[k].Lower_Bound,
             Upper_Bound |-> forecast[k].Upper_Bound,
             MoM_Growth |-> growth[k]]]

\* One run of the page: what it shows after load_forecast_data()
st_forecast_run(cache, df) ==
    LET loaded == load_forecast_data(cache, df)
    IN  IF loaded.stopped THEN
            [shows |-> "error", error |-> loaded.error, summary |-> NoSummary,
             fig_forecast |-> NoFigure, forecast_display |-> <<>>]
        ELSE [shows |-> "forecast", error |-> "",
              summary |-> forecast_summary(loaded.value.monthly_sales, loaded.value.forecast),
              fig_forecast |-> fig_forecast(loaded.value.monthly_sales, loaded.value.forecast),
              forecast_display |-> forecast_display(loaded.value.forecast)]

ForecastFrame ==
    UNCHANGED <<app, retail, sort_kind, panel_widgets, d, view_error, assoc,
                st_widgets, st_cache, st_view, rfm, customer_view,
                other_pages>>

\* A run or rerun of the Streamlit forecast page
StForecastRerun ==
    /\ app = "streamlit_forecast"
    /\ forecast_cache' = load_forecast_data(forecast_cache, retail).cache
    /\ forecast_view' = st_forecast_run(forecast_cache, retail)
    /\ UNCHANGED call
    /\ ForecastFrame

PeriodsValues == {0, 1, 2, Periods}

\* A call of the engine with a number of periods of its own
CallForecastSales(periods) ==
    /\ app = "streamlit_forecast"
    /\ call' = [pc |-> "returned", periods |-> periods,
                result |-> forecast_sales(retail, periods)]
    /\ UNCHANGED <<forecast_cache, forecast_view>>
    /\ ForecastFrame

ForecastInit ==
    /\ app = "streamlit_forecast"
    /\ retail \in ForecastTables
    /\ country_filter = {}
    /\ date_range = <<1, 1>>
    /\ customer_filter = ""
    /\ d = <<>>
    /\ view_error = FALSE
    /\ BasketIdle
    /\ AnalyticsIdle

ForecastNext ==
    \/ StForecastRerun
    \/ \E periods \in PeriodsValues : CallForecastSales(periods)

ForecastSpec == ForecastInit /\ [][ForecastNext]_vars

----------------------------------------------------------------------------
(* C17 .. C20: the forecast.                                               *)

OnForecastPage == app = "streamlit_forecast"

\* the forecasts the engine has returned: to a call, and to the page's loader
ReturnedForecasts ==
    (IF call # NoCall /\ call.result.raised = "" THEN {call.result.forecast} ELSE {})
        \cup (IF forecast_cache.cached THEN {forecast_cache.forecast} ELSE {})

MonthsOf(table) == {month_index(table[k].InvoiceDate) : k \in 1..Len(table)}

\* C17: every forecast point the engine returns, for any history and number
\* of periods, has LowerBound <= Forecast <= UpperBound; and the confidence
\* interval the page draws around the forecast line has, at every date of
\* the line, its upper outline at or above the line and its lower outline at
\* or below it.
C17_BoundsBracketForecast ==
    OnForecastPage =>
        /\ \A forecast \in ReturnedForecasts : \A k \in 1..Len(forecast) :
                /\ FGe(forecast[k].Forecast, forecast[k].Lower_Bound)
                /\ FGe(forecast[k].Upper_Bound, forecast[k].Forecast)
        /\ (forecast_view.shows = "forecast") =>
                LET fig == forecast_view.fig_forecast
                    len == Len(fig.forecasted.y)
                IN  /\ Len(fig.interval.y) = 2 * len
                    /\ Len(fig.interval.x) = 2 * len
                    /\ \A k \in 1..len :
                        /\ fig.interval.x[k] = fig.forecasted.x[k]
                        /\ FGe(fig.interval.y[k], fig.forecasted.y[k])
                        /\ fig.interval.x[2 * len + 1 - k] = fig.forecasted.x[k]
                        /\ FGe(fig.forecasted.y[k], fig.interval.y[2 * len + 1 - k])

\* the series 100, 110, 120, 130 of Scenario 3 forecast for 2 periods, every
\* point strictly inside its bounds, and shown by the page with its interval
C17_Witness ==
    /\ OnForecastPage
    /\ retail = Scenario3
    /\ call # NoCall /\ call.periods = 2 /\ Len(call.result.forecast) = 2
    /\ \A k \in 1..2 :
            /\ FGt(call.result.forecast[k].Forecast, call.result.forecast[k].Lower_Bound)
            /\ FGt(call.result.forecast[k].Upper_Bound, call.result.forecast[k].Forecast)
            /\ call.result.forecast[k].Forecast.num > 0
    /\ forecast_view.shows = "forecast"
    /\ Len(forecast_view.fig_forecast.interval.y) = 2 * Periods

\* C18: every forecast point the engine returns, for any history (a
\* decreasing one included) and number of periods, has Forecast >= 0; so the
\* average and the total of the forecast the page shows are not negative,
\* and the average is the total divided by the number of points.
C18_ForecastNotNegative ==
    OnForecastPage =>
        /\ \A forecast \in ReturnedForecasts : \A k \in 1..Len(forecast) :
                /\ forecast[k].Forecast.den > 0
                /\ forecast[k].Forecast.num >= 0
        /\ (forecast_view.shows = "forecast") =>
                /\ forecast_view.summary.fore_avg.den > 0
                /\ forecast_view.summary.fore_avg.num >= 0
                /\ forecast_view.summary.total_fore.num >= 0
                /\ FEq(FMul(forecast_view.summary.fore_avg, Periods),
                       forecast_view.summary.total_fore)

\* a history that falls every month, below zero in its last month: the trend
\* is negative at the forecast dates, the forecast shown is 0
C18_Witness ==
    /\ OnForecastPage
    /\ forecast_cache.cached
    /\ Len(forecast_cache.monthly_sales) = HistoryMonths
    /\ \A k \in 2..HistoryMonths :
            forecast_cache.monthly_sales[k].Revenue < forecast_cache.monthly_sales[k - 1].Revenue
    /\ trend_at(forecast_cache.monthly_sales, HistoryMonths).num < 0
    /\ forecast_cache.forecast[1].Forecast.num = 0
    /\ forecast_view.shows = "forecast"
    /\ forecast_view.summary.hist_avg.num > 0
    /\ call # NoCall /\ call.periods = 1 /\ call.result.forecast[1].Forecast.num = 0

\* C19: forecast_sales(transactions, periods), when it returns, returns
\* exactly `periods` points, the k-th dated the first day of the k-th month
\* after the last month of the history; the page asks for 12 and lists 12
\* rows, the k-th named after that month and year.
C19_PeriodsConsecutiveMonths ==
    OnForecastPage =>
        LET last == Max(MonthsOf(retail))
            Follows(forecast) ==
                \A k \in 1..Len(forecast) :
                    /\ forecast[k].Date.day = 1
                    /\ forecast[k].Date.month \in 1..MonthsPerYear
                    /\ month_index(forecast[k].Date) = last + k
        IN  /\ (call # NoCall /\ call.result.raised = "") =>
                    /\ Len(call.result.forecast) = call.periods
                    /\ Follows(call.result.forecast)
            /\ forecast_cache.cached =>
                    /\ Len(forecast_cache.forecast) = Periods
                    /\ Follows(forecast_cache.forecast)
            /\ (forecast_view.shows = "forecast") =>
                    /\ Len(forecast_view.forecast_display) = Periods
                    /\ \A k \in 1..Periods :
                            forecast_view.forecast_display[k].Date =
                                <<month_order[((last + k) % MonthsPerYear) + 1],
                                  (last + k) \div MonthsPerYear>>

\* a history that ends in December 2010: the page lists January 2011 to
\* December 2011, and a call for 2 periods returns January and February 2011
C19_Witness ==
    /\ OnForecastPage
    /\ Max(MonthsOf(retail) \cup {0}) = 2010 * MonthsPerYear + 11
    /\ forecast_view.shows = "forecast"
    /\ forecast_view.forecast_display[1].Date = <<"January", 2011>>
    /\ forecast_view.forecast_display[Periods].Date = <<"December", 2011>>
    /\ call # NoCall /\ call.periods = 2
    /\ Len(call.result.forecast) = 2
    /\ call.result.forecast[2].Date = [year |-> 2011, month |-> 2, day |-> 1]

\* C20: over a history of fewer than 2 months forecast_sales raises
\* InsufficientDataError and returns no forecast point; the page shows the
\* error and stops, with no forecast cached, drawn or listed.
C20_ShortHistoryRaises ==
    (OnForecastPage /\ Cardinality(MonthsOf(retail)) < 2) =>
        /\ call # NoCall =>
                /\ call.result.raised = InsufficientDataError
                /\ call.result.forecast = <<>>
        /\ ~forecast_cache.cached
        /\ forecast_view.shows # "" =>
                /\ forecast_view.shows = "error"
                /\ forecast_view.error = InsufficientDataError
                /\ forecast_view.forecast_display = <<>>
                /\ forecast_view.fig_forecast = NoFigure

\* a history of one month, two lines in it: the call for 12 periods raised and
\* the page, run, shows the error
C20_Witness ==
    /\ OnForecastPage
    /\ Cardinality(MonthsOf(retail)) = 1
    /\ Len(retail) = 2
    /\ call # NoCall /\ call.periods = Periods
    /\ call.result.raised = InsufficientDataError
    /\ forecast_view.shows = "error"

----------------------------------------------------------------------------
(* C21 .. C30                                                              *)

\* C29: the rules table of the Panel basket page holds the first top_n of the
\* filtered rules: min(top_n, number of filtered rules) of them, in the
\* order of the filtered rules, and no filtered rule left out has a strictly
\* higher Lift_A_to_B than a rule shown.
C29_TopNOfFilteredRules ==
    (app = "panel" /\ ~view_error) =>
        /\ Len(assoc.rules_top) <= top_n_rules
        /\ Len(assoc.rules_top) = Min(top_n_rules, Len(assoc.rules_filtered))
        /\ \A k \in 1..Len(assoc.rules_top) : assoc.rules_top[k] = assoc.rules_filtered[k]
        /\ LiftDescending(assoc.rules_filtered)
        /\ \A j \in 1..Len(assoc.rules_filtered), k \in 1..Len(assoc.rules_top) :
                j > Len(assoc.rules_top) =>
                    ~FGt(assoc.rules_filtered[j].Lift_A_to_B, assoc.rules_top[k].Lift_A_to_B)

\* more rules pass the thresholds than the table shows, and a rule left out
\* has a lower Lift_A_to_B than the first rule shown
C29_Witness ==
    /\ app = "panel" /\ ~view_error
    /\ Len(assoc.rules_filtered) > top_n_rules
    /\ Len(assoc.rules_top) = top_n_rules
    /\ FGt(assoc.rules_top[1].Lift_A_to_B,
           assoc.rules_filtered[Len(assoc.rules_filtered)].Lift_A_to_B)

\* the rows of table that the three filters select: Country among the
\* selected countries (every country when none is selected), CustomerID the
\* customer typed (every customer when none is typed), InvoiceDate within
\* the closed date range
SelectedRows(table, countries, range, customer) ==
    SelectSeq(table, LAMBDA r : /\ (countries = {} \/ r.Country \in countries)
                                /\ (customer = "" \/ r.CustomerID = customer)
                                /\ r.InvoiceDate >= range[1]
                                /\ r.InvoiceDate <= range[2])

\* C30: the filtered transaction table is always a part of the loaded table
\* and holds exactly the rows whose Country is among the selected countries
\* (every country when the selection is empty), whose CustomerID matches the
\* customer filter (every customer when it is empty) and whose InvoiceDate
\* lies in the closed interval of the date range.
C30_FilteredRowsExact ==
    app = "panel" =>
        /\ \A k \in 1..Len(d) : \E j \in 1..Len(retail) : d[k] = retail[j]
        /\ d = SelectedRows(retail, country_filter, date_range, customer_filter)

----------------------------------------------------------------------------
(* The segment insights of the Streamlit customer page                     *)
(* (src/pages/2_..._Customer_Analysis.py, lines 327-452): one expander per *)
(* segment label of the rfm table, with the recommendation record of the   *)
(* label.                                                                  *)

\* The recommendations dictionary: the records are told apart by their
\* description, of which the first words are kept
recommendations ==
    [s \in Segments |->
        CASE s = "Champions" -> [description |-> "Your best customers!",
                                 priority |-> "HIGHEST", box_type |-> "success"]
          [] s = "Loyal Customers" -> [description |-> "Highly engaged customers",
                                       priority |-> "HIGH", box_type |-> "success"]
          [] s = "Potential Loyalists" -> [description |-> "Recent customers showing strong potential.",
                                           priority |-> "MEDIUM", box_type |-> "info"]
          [] s = "Promising" -> [description |-> "Good potential customers",
                                 priority |-> "MEDIUM", box_type |-> "info"]
          [] s = "At Risk" -> [description |-> "Previously good customers",
                               priority |-> "URGENT", box_type |-> "warning"]
          [] s = "Hibernating" -> [description |-> "Previously active customers now dormant.",
                                   priority |-> "HIGH", box_type |-> "warning"]
          [] s = "Lost" -> [description |-> "Customers who have likely churned.",
                            priority |-> "LOW", box_type |-> "error"]
          [] s = "New Customers" -> [description |-> "Recent first-time buyers.",
                                     priority |-> "HIGH", box_type |-> "info"]
          [] s = "Others" -> [description |-> "Customers requiring further analysis.",
                              priority |-> "LOW", box_type |-> "info"]]

\* Mutant: the record of 'Others' for every label
recommendations_get_others(label) == recommendations["Others"]

\* recommendations.get(segment, recommendations['Others'])
recommendations_get(label) ==
    IF label \in DOMAIN recommendations THEN recommendations[label]
    ELSE recommendations["Others"]

\* The labels a Segment column can hold, in the ascending order groupby
\* gives its keys: the nine of the dictionary and two it does not know
SegmentLabels ==
    <<"At Risk", "Cannot Lose", "Champions", "Hibernating", "Lost", "Loyal Customers",
      "Need Attention", "New Customers", "Others", "Potential Loyalists", "Promising">>

\* rfm.groupby('Segment').agg(...).reset_index(): one row per label of the
\* table, in ascending order of the label, with the number of its customers
segment_stats(table) ==
    LET present == SelectSeq(SegmentLabels,
                             LAMBDA s : \E k \in 1..Len(table) : table[k].Segment = s)
    IN  [j \in 1..Len(present) |->
            [Segment |-> present[j],
             CustomerCount |-> Cardinality({k \in 1..Len(table) :
                                               table[k].Segment = present[j]})]]

\* the rfm tables of the insights: one to three customers, each under any
\* label
LabelledTables ==
    UNION {{[k \in 1..n |-> [CustomerID |-> CustomerIds[k], Segment |-> l[k]]] :
                l \in [1..n -> {SegmentLabels[j] : j \in 1..Len(SegmentLabels)}]} :
           n \in 1..Len(CustomerIds)}

\* The page has run down to the insights loop over the cached table t
InsightsInit(t) ==
    /\ app = "streamlit_insights"
    /\ retail = <<>>
    /\ rfm = t
    /\ country_filter = DefaultCountryFilter
    /\ date_range = DefaultDateRange
    /\ customer_filter = DefaultCustomerFilter
    /\ view_error = FALSE
    /\ d = <<>>
    /\ customer_view = [shows |-> "insights", segment_stats |-> segment_stats(t),
                        expanders |-> <<>>]
    /\ BasketIdle
    /\ call = NoCall
    /\ forecast_cache = NoForecast
    /\ forecast_view = NoForecastView
    /\ OtherPagesIdle

\* One turn of the loop `for segment in segment_stats['Segment']`: the
\* expander of the next segment
SegmentInsight ==
    /\ app = "streamlit_insights"
    /\ Len(customer_view.expanders) < Len(customer_view.segment_stats)
    /\ LET stats == customer_view.segment_stats[Len(customer_view.expanders) + 1]
       IN  customer_view' =
               [customer_view EXCEPT !.expanders =
                   Append(@, [segment |-> stats.Segment,
                              customers |-> stats.CustomerCount,
                              rec |-> recommendations_get(stats.Segment)])]
    /\ UNCHANGED <<app, retail, sort_kind, panel_widgets, d, view_error, assoc,
                   st_widgets, st_cache, st_view, call, rfm, forecast_cache, forecast_view,
                other_pages>>

InsightsSpecInit == \E t \in LabelledTables : InsightsInit(t)

InsightsNext == SegmentInsight

InsightsSpec == InsightsSpecInit /\ [][InsightsNext]_vars

\* C26: every segment label of the rfm table gets exactly one recommendation
\* record: the expanders rendered so far are those of the first labels of the
\* table, one each, a label among the nine of the dictionary with the record
\* of its own name and any other label with the record of 'Others'.
C26_RecommendationTotal ==
    app = "streamlit_insights" =>
        /\ Len(customer_view.expanders) <= Len(customer_view.segment_stats)
        /\ {customer_view.segment_stats[k].Segment : k \in 1..Len(customer_view.segment_stats)}
               = {rfm[k].Segment : k \in 1..Len(rfm)}
        /\ \A k \in 1..Len(customer_view.expanders) :
              LET e == customer_view.expanders[k]
              IN  /\ e.segment = customer_view.segment_stats[k].Segment
                  /\ \A j \in 1..Len(customer_view.expanders) :
                         customer_view.expanders[j].segment = e.segment => j = k
                  /\ e.segment \in Segments => e.rec = recommendations[e.segment]
                  /\ e.segment \notin Segments => e.rec = recommendations["Others"]
                  /\ \A s \in Segments \ {e.segment, "Others"} : e.rec # recommendations[s]

\* all three labels of a table have their expander: a named one, 'Others'
\* and one the dictionary does not know
C26_Witness ==
    /\ app = "streamlit_insights"
    /\ Len(customer_view.expanders) = 3
    /\ customer_view.expanders[1].segment = "Champions"
    /\ customer_view.expanders[2].segment = "Need Attention"
    /\ customer_view.expanders[3].segment = "Others"
    /\ customer_view.expanders[2].rec = customer_view.expanders[3].rec

----------------------------------------------------------------------------
(* The entry page: src/Pages.py, the Data Overview block (lines 150-176)   *)
(* and the footer (178-184). The script runs once per rerun of the page;   *)
(* st.session_state lives as long as the browser session.                  *)

MaxReruns == 4

DataLoadError == "DataLoadError"

LoaderOutcomes == {"ok", DataLoadError}

\* load_and_prepare_data() of utils.data_processor (specification 4.1,
\* load()): the table of the source, or DataLoadError when the source is
\* unreadable or lacks a required column
load_and_prepare_data(source, outcome) ==
    IF outcome = "ok" THEN [raised |-> "", df |-> source]
    ELSE [raised |-> DataLoadError, df |-> <<>>]

\* Mutant: the loader is called on every run
entry_load_every_run(session, source, outcome) ==
    LET r == load_and_prepare_data(source, outcome)
    IN  [called |-> TRUE, raised |-> r.raised,
         session |-> IF r.raised = "" THEN [keys |-> session.keys \cup {"df"}, df |-> r.df]
                     ELSE session]

\* if 'df' not in st.session_state:
\*     st.session_state.df = load_and_prepare_data()
\* the assignment happens only when the call returns
entry_load(session, source, outcome) ==
    IF "df" \notin session.keys
    THEN LET r == load_and_prepare_data(source, outcome)
         IN  [called |-> TRUE, raised |-> r.raised,
              session |-> IF r.raised = ""
                          THEN [keys |-> session.keys \cup {"df"}, df |-> r.df]
                          ELSE session]
    ELSE [called |-> FALSE, raised |-> "", session |-> session]

\* the three st.metric of the Data Overview
entry_metrics(df) ==
    [total_transactions |-> Len(df),
     unique_customers |-> Cardinality({df[k].CustomerID : k \in 1..Len(df)} \ {NaN}),
     products |-> Cardinality({df[k].Description : k \in 1..Len(df)} \ {NaN})]

NoMetrics == [total_transactions |-> 0, unique_customers |-> 0, products |-> 0]

\* Mutant: an error of the loader ends the run of the page
entry_run_uncaught(run, session, source, outcome) ==
    LET l == entry_load(session, source, outcome)
    IN  IF l.raised # ""
        THEN [run |-> run, shows |-> "exception", metrics |-> NoMetrics, footer |-> FALSE]
        ELSE [run |-> run, shows |-> "metrics", metrics |-> entry_metrics(l.session.df),
              footer |-> TRUE]

\* One run of the script from the Data Overview on: the try block, the
\* except clause with its st.info, then the footer
entry_run(run, session, source, outcome) ==
    LET l == entry_load(session, source, outcome)
    IN  IF l.raised # ""
        THEN [run |-> run, shows |-> "info", metrics |-> NoMetrics, footer |-> TRUE]
        ELSE [run |-> run, shows |-> "metrics", metrics |-> entry_metrics(l.session.df),
              footer |-> TRUE]

\* A run or rerun of the entry page; the source answers the loader, when it
\* is called, with the table or with an error
EntryRerun(outcome) ==
    /\ app = "streamlit_entry"
    /\ entry_view.run < MaxReruns
    /\ LET l == entry_load(session_state, retail, outcome)
       IN  /\ session_state' = l.session
           /\ loader_log' = IF l.called
                            THEN Append(loader_log, IF l.raised = "" THEN "ok" ELSE l.raised)
                            ELSE loader_log
    /\ entry_view' = entry_run(entry_view.run + 1, session_state, retail, outcome)
    /\ UNCHANGED <<app, retail, sort_kind, panel_widgets, d, view_error, assoc,
                   st_widgets, st_cache, st_view, call, rfm, customer_view,
                   forecast_cache, forecast_view, clv_view>>

\* A new session of the entry page over the source table t
EntryInit ==
    /\ app = "streamlit_entry"
    /\ retail \in RfmTables
    /\ country_filter = DefaultCountryFilter
    /\ date_range = DefaultDateRange
    /\ customer_filter = DefaultCustomerFilter
    /\ view_error = FALSE
    /\ d = <<>>
    /\ BasketIdle
    /\ call = NoCall
    /\ rfm = <<>>
    /\ customer_view = NotComputed
    /\ forecast_cache = NoForecast
    /\ forecast_view = NoForecastView
    /\ session_state = NoSession
    /\ entry_view = [run |-> 0, shows |-> "", metrics |-> NoMetrics, footer |-> FALSE]
    /\ loader_log = <<>>
    /\ clv_view = NotRun

EntryNext == \E outcome \in LoaderOutcomes : EntryRerun(outcome)

EntrySpec == EntryInit /\ [][EntryNext]_vars

\* what a step of the entry page does with the loader and the session state
EntryStep ==
    /\ "df" \in session_state.keys =>
            /\ loader_log' = loader_log
            /\ session_state' = session_state
            /\ entry_view'.shows = "metrics"
            /\ entry_view'.metrics = entry_metrics(session_state.df)
    /\ "df" \notin session_state.keys =>
            /\ Len(loader_log') = Len(loader_log) + 1
            /\ loader_log'[Len(loader_log')] = "ok" =>
                    session_state' = [keys |-> {"df"}, df |-> retail]
            /\ loader_log'[Len(loader_log')] # "ok" => session_state' = session_state

\* C27: within one session of the entry page the loader is called again only
\* while no earlier call has succeeded: a call that succeeded is the last
\* call of the session, its table is in the session state and every later
\* rerun shows it without calling the loader; a call that failed stores
\* nothing, and the next rerun calls the loader again.
C27_LoaderCalledUntilSuccess ==
    /\ [](app = "streamlit_entry" =>
            /\ \A k \in 1..Len(loader_log) : loader_log[k] = "ok" => k = Len(loader_log)
            /\ "df" \in session_state.keys <=>
                    (loader_log # <<>> /\ loader_log[Len(loader_log)] = "ok")
            /\ "df" \in session_state.keys => session_state.df = retail
            /\ "df" \notin session_state.keys => Len(loader_log) = entry_view.run)
    /\ [][app = "streamlit_entry" => EntryStep]_vars

\* the first load failed, the second succeeded, and the page was rerun after
\* that
C27_Witness ==
    /\ app = "streamlit_entry"
    /\ loader_log = <<DataLoadError, "ok">>
    /\ entry_view.run = MaxReruns
    /\ entry_view.shows = "metrics"
    /\ entry_view.metrics.total_transactions > 0

----------------------------------------------------------------------------
(* Loading on the Streamlit customer page                                  *)
(* (src/pages/2_..._Customer_Analysis.py, lines 23-36).                    *)

\* load_all_data() under st.cache_data: the cached tables when there are
\* some; else the loader and the RFM engine, cached when they return; when
\* the loader raises, st.error, st.info and st.stop(), nothing cached
load_all_data(cached, cache, source, outcome) ==
    IF cached THEN [stopped |-> FALSE, error |-> "", called |-> FALSE, rfm |-> cache]
    ELSE LET r == load_and_prepare_data(source, outcome)
         IN  IF r.raised # ""
             THEN [stopped |-> TRUE, error |-> r.raised, called |-> TRUE, rfm |-> cache]
             ELSE [stopped |-> FALSE, error |-> "", called |-> TRUE,
                   rfm |-> create_rfm_features(r.df)]

\* TRUE when load_all_data has returned in this session
LoadCached == loader_log # <<>> /\ loader_log[Len(loader_log)] = "ok"

\* A run of the customer page from its top: load_all_data(), then the page
\* when the script was not stopped
StCustomerLoad(outcome) ==
    /\ app = "streamlit_customers"
    /\ Len(loader_log) < MaxReruns
    /\ LET l == load_all_data(LoadCached, rfm, retail, outcome)
       IN  /\ rfm' = l.rfm
           /\ loader_log' = IF l.called
                            THEN Append(loader_log, IF l.stopped THEN l.error ELSE "ok")
                            ELSE loader_log
           /\ customer_view' =
                  IF l.stopped
                  THEN [shows |-> "error", error |-> l.error, total_customers |-> 0,
                        segment_counts |-> <<>>]
                  ELSE st_customer_run(l.rfm)
    /\ UNCHANGED <<app, retail, sort_kind, panel_widgets, d, view_error, assoc,
                   st_widgets, st_cache, st_view, call, forecast_cache, forecast_view,
                   session_state, entry_view, clv_view>>

\* The customer page before its first run over the source table t
CustomerLoadInit ==
    /\ app = "streamlit_customers"
    /\ retail \in RfmTables
    /\ country_filter = DefaultCountryFilter
    /\ date_range = DefaultDateRange
    /\ customer_filter = DefaultCustomerFilter
    /\ view_error = FALSE
    /\ d = <<>>
    /\ BasketIdle
    /\ call = NoCall
    /\ rfm = <<>>
    /\ customer_view = [shows |-> "", total_customers |-> 0, segment_counts |-> <<>>]
    /\ forecast_cache = NoForecast
    /\ forecast_view = NoForecastView
    /\ OtherPagesIdle

\* The Streamlit pages with a loader that can fail: the entry page, the
\* customer page and the forecast page
LoadInit == EntryInit \/ CustomerLoadInit \/ ForecastInit

LoadNext ==
    \/ EntryNext
    \/ \E outcome \in LoaderOutcomes : StCustomerLoad(outcome)
    \/ ForecastNext

LoadSpec == LoadInit /\ [][LoadNext]_vars

----------------------------------------------------------------------------
(* The CLV/churn engine (train_and_score, specification 4.5; not part of   *)
(* the source) and the Panel page src/pages/clv_churn.py. What the trained *)
(* models predict is not specified: every prediction within the data       *)
(* model's ranges (Predicted_CLV >= 0, ChurnRisk one of three labels) is a *)
(* possible output.                                                        *)

MinTrainingSize == 2

ChurnRisks == {"Low", "Medium", "High"}

ClvValues == {0, 100, 300}

\* train_and_score(rfm_table): InsufficientDataError below the minimum
\* training size; else the possible prediction tables, one row per row of
\* rfm_table with Predicted_CLV and ChurnRisk added
train_and_score(rfm_table) ==
    IF Len(rfm_table) < MinTrainingSize
    THEN [raised |-> InsufficientDataError, results |-> {}]
    ELSE [raised |-> "",
          results |->
             {[k \in 1..Len(rfm_table) |->
                  [CustomerID |-> rfm_table[k].CustomerID,
                   Country |-> rfm_table[k].Country,
                   LastPurchase |-> rfm_table[k].LastPurchase,
                   Frequency |-> rfm_table[k].Frequency,
                   Predicted_CLV |-> p[k][1], ChurnRisk |-> p[k][2]]] :
              p \in [1..Len(rfm_table) -> ClvValues \X ChurnRisks]}]

\* filtered_data(): the filtered copy of rfm, or the TypeError pandas raises
\* for isin() of a str (AutocompleteInput.value is a str)
filtered_data(table, countries, range, customer) ==
    LET d1 == IF countries # {}
              THEN SelectSeq(table, LAMBDA r : r.Country \in countries)
              ELSE table
        d3 == SelectSeq(d1, LAMBDA r : /\ r.LastPurchase >= range[1]
                                       /\ r.LastPurchase <= range[2])
    IN  IF customer # "" THEN [raised |-> TRUE, d |-> <<>>]
        ELSE [raised |-> FALSE, d |-> d3]

\* Where value v goes in an ascending list
RECURSIVE insert_asc(_, _)
insert_asc(x, v) ==
    IF x = <<>> THEN <<v>>
    ELSE IF v < Head(x) THEN <<v>> \o x
    ELSE <<Head(x)>> \o insert_asc(Tail(x), v)

RECURSIVE sorted_asc(_)
sorted_asc(x) == IF x = <<>> THEN <<>> ELSE insert_asc(sorted_asc(Tail(x)), Head(x))

QuantileLow == 33

QuantileHigh == 66

\* 100 times Series.quantile(q / 100) of a non-empty column: linear
\* interpolation between the two values around position (n - 1) * q / 100
quantile100(values, q) ==
    LET v == sorted_asc(values)
        n == Len(v)
        lo == ((n - 1) * q) \div 100
    IN  IF lo + 1 >= n THEN 100 * v[n]
        ELSE 100 * v[lo + 1] + ((n - 1) * q - 100 * lo) * (v[lo + 2] - v[lo + 1])

clv_tier(v, clv_q) ==
    IF 100 * v <= clv_q[1] THEN "Low CLV"
    ELSE IF 100 * v <= clv_q[2] THEN "Medium CLV"
    ELSE "High CLV"

\* Mutant: no entry for 'Medium'
risk_map_two == [r \in {"Low", "High"} |-> IF r = "Low" THEN 0 ELSE 2]

risk_map == [r \in ChurnRisks |-> CASE r = "Low" -> 0 [] r = "Medium" -> 1 [] r = "High" -> 2]

\* Series.map(dict), a column of numbers [num, den]: NaN for a value that is
\* not a key
map_dict(value, dict) == IF value \in DOMAIN dict THEN Frac(dict[value], 1) ELSE FNaN

\* the rows of the scatter plot: dd with the columns CLV_Tier and RiskNum
matrix_rows(dd) ==
    LET clv_q == <<quantile100([k \in 1..Len(dd) |-> dd[k].Predicted_CLV], QuantileLow),
                   quantile100([k \in 1..Len(dd) |-> dd[k].Predicted_CLV], QuantileHigh)>>
    IN  [k \in 1..Len(dd) |->
            [CustomerID |-> dd[k].CustomerID, Country |-> dd[k].Country,
             LastPurchase |-> dd[k].LastPurchase, Frequency |-> dd[k].Frequency,
             Predicted_CLV |-> dd[k].Predicted_CLV, ChurnRisk |-> dd[k].ChurnRisk,
             CLV_Tier |-> clv_tier(dd[k].Predicted_CLV, clv_q),
             RiskNum |-> map_dict(dd[k].ChurnRisk, risk_map)]]

\* Mutant: the two columns are written to the frame filtered_data returned
strategic_matrix_in_place(dd) ==
    IF dd = <<>> THEN [shows |-> "_No data available._", plot |-> <<>>, d |-> dd]
    ELSE [shows |-> "scatter", plot |-> matrix_rows(dd), d |-> matrix_rows(dd)]

\* strategic_matrix(d): the plot, and the frame it was given as it is after
\* the call: the columns are written to d.copy(), the frame given keeps its
\* own
strategic_matrix(dd) ==
    IF dd = <<>> THEN [shows |-> "_No data available._", plot |-> <<>>, d |-> dd]
    ELSE [shows |-> "scatter", plot |-> matrix_rows(dd), d |-> dd]

\* The recomputation a filter widget triggers on the CLV page:
\* filtered_data, then strategic_matrix over its result; the views are left
\* as they were when filtered_data raises
ClvRefresh ==
    LET f == filtered_data(rfm, country_filter', date_range', customer_filter')
    IN  IF f.raised
        THEN /\ view_error' = TRUE
             /\ UNCHANGED <<d, clv_view>>
        ELSE /\ view_error' = FALSE
             /\ d' = strategic_matrix(f.d).d
             /\ clv_view' = [shows |-> strategic_matrix(f.d).shows,
                             plot |-> strategic_matrix(f.d).plot]

ClvFrame ==
    UNCHANGED <<app, retail, sort_kind, min_lift, min_conf, top_n_rules, assoc,
                st_widgets, st_cache, st_view, call, rfm, customer_view,
                forecast_cache, forecast_view, session_state, entry_view, loader_log>>

SetClvCountryFilter(v) ==
    /\ app = "panel_clv"
    /\ country_filter' = v
    /\ UNCHANGED <<date_range, customer_filter>>
    /\ ClvRefresh
    /\ ClvFrame

SetClvDateRange(v) ==
    /\ app = "panel_clv"
    /\ date_range' = v
    /\ UNCHANGED <<country_filter, customer_filter>>
    /\ ClvRefresh
    /\ ClvFrame

SetClvCustomerFilter(v) ==
    /\ app = "panel_clv"
    /\ customer_filter' = v
    /\ UNCHANGED <<country_filter, date_range>>
    /\ ClvRefresh
    /\ ClvFrame

\* one invoice of each customer
ClvTable == concat([i \in 1..Len(CustomerIds) |-> <<CustomerLine(i, CustomerIds[i], 1)>>])

\* The CLV page, first rendered over the table t and the prediction table
\* scored the engine returned
ClvInit(t, scored) ==
    /\ app = "panel_clv"
    /\ retail = t
    /\ rfm = scored
    /\ country_filter = global_filters(t).country_filter
    /\ date_range = global_filters(t).date_range
    /\ customer_filter = global_filters(t).customer_filter
    /\ view_error = FALSE
    /\ d = strategic_matrix(filtered_data(rfm, country_filter, date_range, customer_filter).d).d
    /\ clv_view = [shows |-> strategic_matrix(d).shows, plot |-> strategic_matrix(d).plot]
    /\ BasketIdle
    /\ call = NoCall
    /\ customer_view = NotComputed
    /\ forecast_cache = NoForecast
    /\ forecast_view = NoForecastView
    /\ session_state = NoSession
    /\ entry_view = NotRun
    /\ loader_log = <<>>

ClvSpecInit ==
    \E scored \in train_and_score(create_rfm_features(ClvTable)).results :
        ClvInit(ClvTable, scored)

ClvNext ==
    \/ \E v \in RfmCountryFilterValues : SetClvCountryFilter(v)
    \/ \E v \in RfmDateRangeValues : SetClvDateRange(v)
    \/ \E v \in RfmCustomerFilterValues : SetClvCustomerFilter(v)

ClvSpec == ClvSpecInit /\ [][ClvNext]_vars

\* C24: every prediction row has a ChurnRisk of Low, Medium or High, and the
\* strategic matrix gives every row it plots the risk level 0, 1 or 2 of its
\* label.
C24_ChurnRiskMapped ==
    app = "panel_clv" =>
        /\ \A k \in 1..Len(rfm) : rfm[k].ChurnRisk \in {"Low", "Medium", "High"}
        /\ ~view_error => Len(clv_view.plot) = Len(d)
        /\ \A k \in 1..Len(clv_view.plot) :
              /\ clv_view.plot[k].RiskNum \in {Frac(0, 1), Frac(1, 1), Frac(2, 1)}
              /\ clv_view.plot[k].ChurnRisk = "Low" <=> clv_view.plot[k].RiskNum = Frac(0, 1)
              /\ clv_view.plot[k].ChurnRisk = "Medium" <=> clv_view.plot[k].RiskNum = Frac(1, 1)
              /\ clv_view.plot[k].ChurnRisk = "High" <=> clv_view.plot[k].RiskNum = Frac(2, 1)

\* the matrix plots a customer of each of the three risks
C24_Witness ==
    /\ app = "panel_clv"
    /\ Len(clv_view.plot) = 3
    /\ {clv_view.plot[k].RiskNum.num : k \in 1..3} = {0, 1, 2}
    /\ {clv_view.plot[k].CLV_Tier : k \in 1..3} = {"Low CLV", "Medium CLV", "High CLV"}

----------------------------------------------------------------------------
(* The three Panel pages over their filter widgets, with the Streamlit     *)
(* pages of the same tables.                                               *)

PanelPagesInit == Init \/ CustomerInit \/ ClvSpecInit

PanelPagesNext == Next \/ CustomerNext \/ ClvNext

PanelPagesSpec == PanelPagesInit /\ [][PanelPagesNext]_vars

\* C22: no computation of a page changes the table it is given: whatever
\* filters are changed and whatever is recomputed from them, the loaded
\* transaction table and the loaded RFM table stay as loaded, and the
\* filtered table is still what the filter function returned after the
\* views computed from it (rules, KPIs, strategic matrix) have run.
C22_InputTablesUnchanged ==
    /\ []((app = "panel" /\ ~view_error) =>
            d = filtered_retail(retail, country_filter, date_range, customer_filter).d)
    /\ []((app = "panel_customers" /\ ~view_error) =>
            d = filtered_rfm(rfm, country_filter, date_range, customer_filter).d)
    /\ []((app = "panel_clv" /\ ~view_error) =>
            d = filtered_data(rfm, country_filter, date_range, customer_filter).d)
    /\ [][retail' = retail /\ rfm' = rfm]_vars

\* the strategic matrix has been recomputed over a filtered table of two of
\* the three customers
C22_Witness ==
    /\ app = "panel_clv"
    /\ ~view_error
    /\ date_range # global_filters(retail).date_range
    /\ Len(d) = 2
    /\ Len(rfm) = 3
    /\ clv_view.shows = "scatter"
    /\ Len(clv_view.plot) = 2

----------------------------------------------------------------------------
(* The four engines and the two Panel views that guard an empty table,     *)
(* each called on a transaction table that may be empty. The tables of the *)
(* forecast engine carry calendar dates, those of the others the day       *)
(* number of the invoice.                                                  *)

Returned(engine, raised, result) ==
    [pc |-> "returned", engine |-> engine, raised |-> raised, result |-> result]

EnginesFrame ==
    UNCHANGED <<app, retail, sort_kind, panel_widgets, d, view_error, assoc,
                st_widgets, st_cache, st_view, rfm, customer_view,
                forecast_cache, forecast_view, other_pages>>

\* compute_rfm through create_rfm_features
CallComputeRfm ==
    /\ app = "engines"
    /\ retail \in RfmTables
    /\ call' = Returned("compute_rfm", "", create_rfm_features(retail))
    /\ EnginesFrame

\* mine_rules with its default thresholds over the baskets of the table
CallBasketEngine ==
    /\ app = "engines"
    /\ retail \in RfmTables
    /\ call' = Returned("mine_rules", "",
                        mine_rules(prepare_basket_analysis(retail), Zero, Zero, Zero))
    /\ EnginesFrame

CallForecastEngine ==
    /\ app = "engines"
    /\ retail \in ForecastTables
    /\ call' = Returned("forecast_sales", forecast_sales(retail, Periods).raised,
                        forecast_sales(retail, Periods).forecast)
    /\ EnginesFrame

\* train_and_score over the rfm table of the transactions
CallTrainAndScore ==
    /\ app = "engines"
    /\ retail \in RfmTables
    /\ LET r == train_and_score(create_rfm_features(retail))
       IN  IF r.raised # "" THEN call' = Returned("train_and_score", r.raised, <<>>)
           ELSE \E scored \in r.results : call' = Returned("train_and_score", "", scored)
    /\ EnginesFrame

\* association_rules of the Panel basket page over the table, sliders at
\* their defaults
ViewAssociationRules ==
    /\ app = "engines"
    /\ retail \in RfmTables
    /\ call' = Returned("association_rules", "",
                        association_rules(retail, Frac(DefaultMinLift, 10),
                                          Frac(DefaultMinConf, 1), DefaultTopN, sort_kind))
    /\ EnginesFrame

\* kpi_row of the Panel customer page over the rfm table of the transactions
ViewKpiRow ==
    /\ app = "engines"
    /\ retail \in RfmTables
    /\ call' = Returned("kpi_row", "", customer_kpi_row(create_rfm_features(retail)))
    /\ EnginesFrame

\* the tables the engines are called on: of at most two lines, or of the
\* forecast page
EngineTables == {t \in RfmTables : Len(t) <= 2} \cup ForecastTables

EnginesInit ==
    /\ app = "engines"
    /\ retail \in EngineTables
    /\ country_filter = DefaultCountryFilter
    /\ date_range = DefaultDateRange
    /\ customer_filter = DefaultCustomerFilter
    /\ view_error = FALSE
    /\ d = <<>>
    /\ BasketIdle
    /\ AnalyticsIdle

EnginesNext ==
    \/ CallComputeRfm
    \/ CallBasketEngine
    \/ CallForecastEngine
    \/ CallTrainAndScore
    \/ ViewAssociationRules
    \/ ViewKpiRow

EnginesSpec == EnginesInit /\ [][EnginesNext]_vars

\* C21: called on an empty transaction table, the RFM engine and the basket
\* engine return without error, with no row, no item frequency and no rule,
\* and so do the Panel views over an empty table (a message, no rule, no
\* KPI); the forecast engine and the CLV engine raise InsufficientDataError.
C21_EmptyInput ==
    (app = "engines" /\ call.pc = "returned" /\ retail = <<>>) =>
        /\ call.engine = "compute_rfm" => call.raised = "" /\ call.result = <<>>
        /\ call.engine = "mine_rules" =>
                /\ call.raised = ""
                /\ call.result.frequent_items = <<>>
                /\ call.result.pairs = NoRules
        /\ call.engine = "association_rules" =>
                /\ call.raised = ""
                /\ call.result.shows = "No transactions for current filters."
                /\ call.result.rules = NoRules
                /\ call.result.rules_top = NoRules
        /\ call.engine = "kpi_row" =>
                call.result = [shows |-> "No customer data for current filters."]
        /\ call.engine = "forecast_sales" =>
                call.raised = InsufficientDataError /\ call.result = <<>>
        /\ call.engine = "train_and_score" =>
                call.raised = InsufficientDataError /\ call.result = <<>>

\* the Panel rules view has been computed over the empty table
C21_Witness ==
    /\ app = "engines"
    /\ retail = <<>>
    /\ call.pc = "returned"
    /\ call.engine = "association_rules"
    /\ call.result.shows # ""

----------------------------------------------------------------------------
(* The lifts as the doubles the code computes (src/pages/basket_analysis.py *)
(* lines 156-183). A double of the normal range is [hi, lo, e]: its 53-bit  *)
(* significand is hi * 2^27 + lo, between 2^52 and 2^53, and its value is   *)
(* the significand times 2^e. Division rounds to nearest, ties to even, as  *)
(* Python's / does for int and float operands.                             *)

\* a significand is held in two limbs of 27 bits
Limb == 2 ^ 27

\* the significand 2^52 and the bound 2^53 of the significands
MinSignificand == [hi |-> 2 ^ 25, lo |-> 0]

SignificandBound == [hi |-> 2 ^ 26, lo |-> 0]

\* the bits of a significand after the first
FractionBits == 52

Bigs == [hi : Nat, lo : Nat]

big_twice(x) == [hi |-> 2 * x.hi + (2 * x.lo) \div Limb, lo |-> (2 * x.lo) % Limb]

big_ge(x, y) == x.hi > y.hi \/ (x.hi = y.hi /\ x.lo >= y.lo)

\* x - y for x >= y
big_sub(x, y) ==
    IF x.lo >= y.lo THEN [hi |-> x.hi - y.hi, lo |-> x.lo - y.lo]
    ELSE [hi |-> x.hi - y.hi - 1, lo |-> x.lo + Limb - y.lo]

big_add_small(x, k) == [hi |-> x.hi + (x.lo + k) \div Limb, lo |-> (x.lo + k) % Limb]

\* floor(log2(k)) for k >= 1
floor_log2[k \in Nat] == IF k <= 1 THEN 0 ELSE 1 + floor_log2[k \div 2]

\* the double of the integer k, 1 <= k < 2^26
float(k) ==
    [hi |-> k * 2 ^ (25 - floor_log2[k]), lo |-> 0, e |-> floor_log2[k] - FractionBits]

significand(x) == [hi |-> x.hi, lo |-> x.lo]

\* Long division: k more bits of the quotient q of remainder r by y
div_steps[k \in Nat, q \in Bigs, r \in Bigs, y \in Bigs] ==
    IF k = 0 THEN [q |-> q, r |-> r]
    ELSE LET r2 == big_twice(r)
         IN  IF big_ge(r2, y)
             THEN div_steps[k - 1, big_add_small(big_twice(q), 1), big_sub(r2, y), y]
             ELSE div_steps[k - 1, big_twice(q), r2, y]

\* x / y of two positive doubles
truediv(x, y) ==
    LET mx == significand(x)
        my == significand(y)
        ge == big_ge(mx, my)
        \* the first bit of the quotient is 1: of mx / my, or of 2 mx / my
        first == IF ge THEN big_sub(mx, my) ELSE big_sub(big_twice(mx), my)
        e0 == x.e - y.e - FractionBits - (IF ge THEN 0 ELSE 1)
        qr == div_steps[FractionBits, [hi |-> 0, lo |-> 1], first, my]
        r2 == big_twice(qr.r)
        up == IF r2 = my THEN qr.q.lo % 2 = 1 ELSE big_ge(r2, my)
        q == IF up THEN big_add_small(qr.q, 1) ELSE qr.q
    IN  IF q = SignificandBound
        THEN [hi |-> MinSignificand.hi, lo |-> 0, e |-> e0 + 1]
        ELSE [hi |-> q.hi, lo |-> q.lo, e |-> e0]

\* TRUE when the double x is greater than the double y
float_gt(x, y) ==
    x.e > y.e \/ (x.e = y.e /\ x # y /\ big_ge(significand(x), significand(y)))

\* The distance of two doubles in units in the last place of the greater,
\* rounded up; UlpsFar stands for any distance that is not small
UlpsFar == Limb

ulps_apart(x, y) ==
    LET g == IF float_gt(x, y) THEN x ELSE y
        s == IF float_gt(x, y) THEN y ELSE x
        same == big_sub(significand(g), significand(s))
        above == big_sub(significand(g), MinSignificand)
        below == big_sub(SignificandBound, significand(s))
    IN  IF g.e = s.e THEN (IF same.hi = 0 THEN same.lo ELSE UlpsFar)
        ELSE IF g.e = s.e + 1 /\ above.hi = 0 /\ below.hi = 0
             THEN above.lo + (below.lo + 1) \div 2
        ELSE UlpsFar

\* Mutant: lift_ba = conf_ba / (count_b / n_transactions)
rule_floats_lift_of_b(entry, item_counts, n_transactions) ==
    LET count_ab == entry.val
        count_a == dict_get(item_counts, entry.key[1], 1)
        count_b == dict_get(item_counts, entry.key[2], 1)
        conf_ab == truediv(float(count_ab), float(count_a))
        conf_ba == truediv(float(count_ab), float(count_b))
    IN  [A |-> entry.key[1], B |-> entry.key[2],
         count_ab |-> count_ab, count_a |-> count_a, count_b |-> count_b,
         n_transactions |-> n_transactions,
         conf_ab |-> conf_ab, conf_ba |-> conf_ba,
         lift_ab |-> truediv(conf_ab, truediv(float(count_b), float(n_transactions))),
         lift_ba |-> truediv(conf_ba, truediv(float(count_b), float(n_transactions)))]

\* The doubles of one row of the rules table, for the entry ((a, b), count_ab)
\* of pair_counts, with the counts they are computed from
rule_floats(entry, item_counts, n_transactions) ==
    LET count_ab == entry.val
        count_a == dict_get(item_counts, entry.key[1], 1)
        count_b == dict_get(item_counts, entry.key[2], 1)
        conf_ab == truediv(float(count_ab), float(count_a))
        conf_ba == truediv(float(count_ab), float(count_b))
    IN  [A |-> entry.key[1], B |-> entry.key[2],
         count_ab |-> count_ab, count_a |-> count_a, count_b |-> count_b,
         n_transactions |-> n_transactions,
         conf_ab |-> conf_ab, conf_ba |-> conf_ba,
         lift_ab |-> truediv(conf_ab, truediv(float(count_b), float(n_transactions))),
         lift_ba |-> truediv(conf_ba, truediv(float(count_a), float(n_transactions)))]

\* the rows of the rules table as doubles, in dict order
rules_floats_of(dd) ==
    LET baskets == baskets_of(dd)
        item_counts == item_counts_of(baskets)
        pair_counts == pair_counts_of(baskets)
    IN  [k \in 1..Len(pair_counts) |-> rule_floats(pair_counts[k], item_counts, Len(baskets))]

MaxBaskets == 5

\* the tables of up to MaxBaskets invoices over the products A and B
LiftTables ==
    {concat([i \in 1..MaxBaskets |->
                IF o[i] = "AB" THEN <<Line(i, "A", 1), Line(i, "B", 1)>>
                ELSE IF o[i] = "" THEN <<>>
                ELSE <<Line(i, o[i], 1)>>]) :
        o \in [1..MaxBaskets -> {"", "A", "B", "AB"}]}

\* association_rules has built the rows of the rules table over the loaded
\* table
ComputeRuleRows ==
    /\ app = "panel_rules"
    /\ call.pc = "idle"
    /\ call' = [pc |-> "returned", rules |-> rules_floats_of(retail)]
    /\ EnginesFrame

\* the widgets change and the rows are built again
RecomputeRuleRows ==
    /\ app = "panel_rules"
    /\ call.pc = "returned"
    /\ call' = NoCall
    /\ EnginesFrame

RuleRowsInit ==
    /\ app = "panel_rules"
    /\ retail \in LiftTables
    /\ country_filter = DefaultCountryFilter
    /\ date_range = DefaultDateRange
    /\ customer_filter = DefaultCustomerFilter
    /\ view_error = FALSE
    /\ d = <<>>
    /\ BasketIdle
    /\ AnalyticsIdle

RuleRowsNext == ComputeRuleRows \/ RecomputeRuleRows

RuleRowsSpec == RuleRowsInit /\ [][RuleRowsNext]_vars

RuleRows == IF app = "panel_rules" /\ call.pc = "returned" THEN call.rules ELSE <<>>

\* C28 as stated: the two lifts of every computed rule are the same double.
C28_LiftsEqual ==
    \A k \in 1..Len(RuleRows) : RuleRows[k].lift_ab = RuleRows[k].lift_ba

\* C28: the two lifts of every computed rule are roundings of one value,
\* count(AB) * n / (count(A) * count(B)): computed exactly the two quotients
\* are that value; the doubles of the table are within 4 units in the last
\* place of its correctly rounded double and within 6 of each other.
C28_LiftsAgreeToRounding ==
    \A k \in 1..Len(RuleRows) :
        LET r == RuleRows[k]
            exact == Frac(r.count_ab * r.n_transactions, r.count_a * r.count_b)
            rounded == truediv(float(r.count_ab * r.n_transactions),
                               float(r.count_a * r.count_b))
        IN  /\ FEq(FDiv(Frac(r.count_ab, r.count_a), Frac(r.count_b, r.n_transactions)), exact)
            /\ FEq(FDiv(Frac(r.count_ab, r.count_b), Frac(r.count_a, r.n_transactions)), exact)
            /\ ulps_apart(r.lift_ab, rounded) <= 4
            /\ ulps_apart(r.lift_ba, rounded) <= 4
            /\ ulps_apart(r.lift_ab, r.lift_ba) <= 6

\* five baskets, A in three of them, B in four, both in two: the lifts are
\* 0.8333333333333333 and 0.8333333333333334, the confidences 2/3 and 1/2
C28_Witness ==
    /\ Len(RuleRows) = 1
    /\ RuleRows[1].n_transactions = 5
    /\ RuleRows[1].count_a = 3 /\ RuleRows[1].count_b = 4 /\ RuleRows[1].count_ab = 2
    /\ RuleRows[1].lift_ab # RuleRows[1].lift_ba
    /\ ulps_apart(RuleRows[1].lift_ab, RuleRows[1].lift_ba) = 1
    /\ RuleRows[1].conf_ab # RuleRows[1].conf_ba

====
